---- MODULE Spec2Model ----
(***************************************************************************)
(* Game session state machine of the Guilty Guild trivia backend           *)
(* (src/backend/server.ts, Express variant; key-value store of             *)
(* src/unnamed/part_000).                                                  *)
(*                                                                         *)
(* Every HTTP handler is an async function: it runs synchronously between  *)
(* two awaits of the key-value store, and other handlers run in the gaps.  *)
(* A request is therefore a small process whose steps are the store        *)
(* operations it awaits (get, set, del); the synchronous code that follows *)
(* a kv.get is part of the step that performs the get.                     *)
(***************************************************************************)
EXTENDS Integers, Sequences, FiniteSets, TLC

\* ------------------------------------------------------------------------
\* Bounds of the model
\* ------------------------------------------------------------------------
MaxCmds == 2        \* commands admitted in one behaviour of Spec
MaxRoundCmds == 3   \* commands admitted in one behaviour of SpecRound
MaxInFlight == 2    \* request slots (requests in flight or just answered)
MaxTick == 1        \* clock readings after the first

\* ------------------------------------------------------------------------
\* Program constants
\* ------------------------------------------------------------------------
DefaultTimeLimit == 30
MinTimeLimit == 5
MaxTimeLimit == 120
GraceMs == 2000
ScoreFloor == 100
ScoreBase == 1000

ALLOWED_HOSTS == {"h1", "h2"}
Players == {"p1", "p2"}
Users == ALLOWED_HOSTS \cup Players

\* Identities that issue commands in Spec.
Callers == {"h1", "p1", "p2"}

\* ------------------------------------------------------------------------
\* Inputs: question lists (request bodies of /start), 0-based indices as in
\* the JSON payloads.
\* ------------------------------------------------------------------------
QSky == [text |-> "sky", answers |-> <<"Red", "Blue">>, correctAnswer |-> 1]
QSum == [text |-> "sum", answers |-> <<"3", "4", "5">>, correctAnswer |-> 0]
Quizzes == {<<QSky>>, <<QSky, QSum>>}
AnswerInputs == {0, 1}

\* Date.now() at the successive clock readings of a behaviour (milliseconds).
\* Reading 1 is the full 5 s time limit after reading 0, reading 2 the end of
\* the grace window, reading 3 one millisecond later.
Clock(t) ==
    CASE t = 0 -> 0
      [] t = 1 -> 5000
      [] t = 2 -> 7000
      [] t = 3 -> 7001
      [] OTHER -> 7001 + (t - 3) * 30000

Min(a, b) == IF a < b THEN a ELSE b
Max(a, b) == IF a > b THEN a ELSE b

EmptyMap == [u \in {} |-> 0]

Includes(seq, x) == \E i \in 1..Len(seq) : seq[i] = x

\* ------------------------------------------------------------------------
\* Scoring (reveal handler)
\* ------------------------------------------------------------------------

\* Math.round(1000 * (1 - ratio / 2)) for ratio = Math.min(1, ms / (T * 1000)).
\* 1000 - ms/(2T) rounded half up is floor((2000T + T - ms) / 2T).  (In double
\* arithmetic an exact tie, ms/T an odd integer, may land one point lower;
\* the clock readings of this model produce no ties.)
PointsMutNoHalf(timeTakenMs, timeLimitSeconds) ==
    LET capped == Min(timeLimitSeconds * 1000, timeTakenMs)
    IN  ((ScoreBase + 1) * timeLimitSeconds - capped) \div timeLimitSeconds

PointsMutRising(timeTakenMs, timeLimitSeconds) ==
    LET capped == Min(timeLimitSeconds * 1000, timeTakenMs)
    IN  ((ScoreBase + 1) * timeLimitSeconds + capped) \div (2 * timeLimitSeconds)

Points(timeTakenMs, timeLimitSeconds) ==
    LET capped == Min(timeLimitSeconds * 1000, timeTakenMs)
    IN  ((2 * ScoreBase + 1) * timeLimitSeconds - capped) \div (2 * timeLimitSeconds)

\* The reveal of the Supabase function: ratio = ms / (T * 1000),
\* clampedRatio = Math.max(0, Math.min(ratio, 1)),
\* points = Math.round(1000 * (1 - clampedRatio / 2)), no floor.
SupabasePointsMutNoClamp(timeTakenMs, timeLimitSeconds) ==
    ((2 * ScoreBase + 1) * timeLimitSeconds - timeTakenMs) \div (2 * timeLimitSeconds)

SupabasePoints(timeTakenMs, timeLimitSeconds) ==
    LET clamped == Max(0, Min(timeTakenMs, timeLimitSeconds * 1000))
    IN  ((2 * ScoreBase + 1) * timeLimitSeconds - clamped) \div (2 * timeLimitSeconds)

SupabaseScore(isCorrect, timeTakenMs, timeLimitSeconds) ==
    IF isCorrect THEN SupabasePoints(timeTakenMs, timeLimitSeconds) ELSE 0

\* game.scores[userId] after a correct answer is scored; prior is <<>> when
\* the player has no score yet: (scores[userId] ?? 0) + scoreEarned in the
\* Express server, (scores[userId] || 0) + points in the Supabase function.
ExpressTotal(prior, scoreEarned) ==
    (IF Len(prior) = 0 THEN 0 ELSE prior[1]) + scoreEarned

SupabaseTotal(prior, points) ==
    (IF Len(prior) = 0 \/ prior[1] = 0 THEN 0 ELSE prior[1]) + points

ScoreMutNoZero(isCorrect, timeTakenMs, timeLimitSeconds) ==
    Max(ScoreFloor, Points(timeTakenMs, timeLimitSeconds))

\* scoreEarned of one answer record.
Score(isCorrect, timeTakenMs, timeLimitSeconds) ==
    IF isCorrect
    THEN Max(ScoreFloor, Points(timeTakenMs, timeLimitSeconds))
    ELSE 0


\* ------------------------------------------------------------------------
\* Game record (interface GameState) and the handlers' synchronous code
\* ------------------------------------------------------------------------

\* Value of kv.get for a key that is not stored.
NoGame == [id |-> 0, hostId |-> "", phase |-> "NONE", players |-> <<>>]

NewGameMutNoHostPlayer(gameId, userId, now) ==
    [id |-> gameId,
     hostId |-> userId,
     phase |-> "LOBBY",
     questions |-> <<>>,
     currentQuestionIndex |-> -1,
     phaseStartTime |-> now,
     timeLimitSeconds |-> DefaultTimeLimit,
     players |-> <<>>,
     scores |-> EmptyMap,
     currentRoundAnswers |-> EmptyMap,
     createdAt |-> now]

\* The record built by /game/connect for a host when there is no active game.
NewGame(gameId, userId, now) ==
    [id |-> gameId,
     hostId |-> userId,
     phase |-> "LOBBY",
     questions |-> <<>>,
     currentQuestionIndex |-> -1,
     phaseStartTime |-> now,
     timeLimitSeconds |-> DefaultTimeLimit,
     players |-> <<userId>>,
     scores |-> [u \in {userId} |-> 0],
     currentRoundAnswers |-> EmptyMap,
     createdAt |-> now]

\* game.questions[game.currentQuestionIndex] is defined.
HasCurrentQuestion(game) ==
    /\ game.currentQuestionIndex >= 0
    /\ game.currentQuestionIndex < Len(game.questions)

CurrentQuestion(game) == game.questions[game.currentQuestionIndex + 1]

\* Math.max(5, Math.min(120, timeLimitSeconds))
ClampMutNoUpper(t) == Max(MinTimeLimit, t)

ClampTimeLimit(t) == Max(MinTimeLimit, Min(MaxTimeLimit, t))

ValidQuestionMutNoUpper(q) ==
    /\ q.text # ""
    /\ Len(q.answers) >= 2
    /\ q.correctAnswer >= 0

\* The per-question checks of /start.
ValidQuestion(q) ==
    /\ q.text # ""
    /\ Len(q.answers) >= 2
    /\ q.correctAnswer >= 0
    /\ q.correctAnswer < Len(q.answers)

\* /start after the record is loaded: tl is <<>> when the body carries no
\* numeric timeLimitSeconds, <<n>> otherwise.
StartCompute(game, userId, questions, tl, now) ==
    IF game.id = 0 \/ game.hostId # userId
    THEN [res |-> "Forbidden", g |-> game, after |-> <<>>]
    ELSE IF Len(questions) = 0
    THEN [res |-> "NoQuestions", g |-> game, after |-> <<>>]
    ELSE IF \E i \in 1..Len(questions) : ~ValidQuestion(questions[i])
    THEN [res |-> "InvalidQuestion", g |-> game, after |-> <<>>]
    ELSE [res |-> "ok",
          g |-> [game EXCEPT
                   !.questions = questions,
                   !.timeLimitSeconds =
                       IF Len(tl) > 0 THEN ClampTimeLimit(tl[1]) ELSE @,
                   !.phase = "STARTING",
                   !.phaseStartTime = now,
                   !.currentQuestionIndex = 0,
                   !.currentRoundAnswers = EmptyMap],
          after |-> <<"persist">>]

NextComputeMutAlways(game, userId, now) ==
    IF game.id = 0 \/ game.hostId # userId
    THEN [res |-> "Forbidden", g |-> game, after |-> <<>>]
    ELSE IF game.currentQuestionIndex + 1 >= Len(game.questions)
    THEN [res |-> "ok", g |-> [game EXCEPT !.phase = "FINISHED"],
          after |-> <<"delPtr", "persist">>]
    ELSE [res |-> "ok",
          g |-> [game EXCEPT
                   !.currentQuestionIndex = @ + 1,
                   !.phase = "QUESTION_ACTIVE",
                   !.phaseStartTime = now,
                   !.currentRoundAnswers = EmptyMap],
          after |-> <<"persist">>]

NextComputeMutKeepAnswers(game, userId, now) ==
    IF game.id = 0 \/ game.hostId # userId
    THEN [res |-> "Forbidden", g |-> game, after |-> <<>>]
    ELSE IF game.phase = "STARTING"
    THEN [res |-> "ok",
          g |-> [game EXCEPT !.phase = "QUESTION_ACTIVE", !.phaseStartTime = now],
          after |-> <<"persist">>]
    ELSE IF game.phase \in {"REVEAL_ANSWER", "LEADERBOARD"}
    THEN IF game.currentQuestionIndex + 1 >= Len(game.questions)
         THEN [res |-> "ok", g |-> [game EXCEPT !.phase = "FINISHED"],
               after |-> <<"delPtr", "persist">>]
         ELSE [res |-> "ok",
               g |-> [game EXCEPT
                        !.currentQuestionIndex = @ + 1,
                        !.phase = "QUESTION_ACTIVE",
                        !.phaseStartTime = now],
               after |-> <<"persist">>]
    ELSE [res |-> "ok", g |-> game, after |-> <<"persist">>]

\* /next after the record is loaded.  In every other phase the record is
\* written back as loaded.
NextCompute(game, userId, now) ==
    IF game.id = 0 \/ game.hostId # userId
    THEN [res |-> "Forbidden", g |-> game, after |-> <<>>]
    ELSE IF game.phase = "STARTING"
    THEN [res |-> "ok",
          g |-> [game EXCEPT
                   !.phase = "QUESTION_ACTIVE",
                   !.phaseStartTime = now,
                   !.currentRoundAnswers = EmptyMap],
          after |-> <<"persist">>]
    ELSE IF game.phase \in {"REVEAL_ANSWER", "LEADERBOARD"}
    THEN IF game.currentQuestionIndex + 1 >= Len(game.questions)
         THEN [res |-> "ok", g |-> [game EXCEPT !.phase = "FINISHED"],
               after |-> <<"delPtr", "persist">>]
         ELSE [res |-> "ok",
               g |-> [game EXCEPT
                        !.currentQuestionIndex = @ + 1,
                        !.phase = "QUESTION_ACTIVE",
                        !.phaseStartTime = now,
                        !.currentRoundAnswers = EmptyMap],
               after |-> <<"persist">>]
    ELSE [res |-> "ok", g |-> game, after |-> <<"persist">>]

AnswerComputeMutNoMemberCheck(game, userId, answerIndex, now) ==
    IF game.id = 0
    THEN [res |-> "NotFound", g |-> game, after |-> <<>>]
    ELSE IF game.phase # "QUESTION_ACTIVE"
    THEN [res |-> "NotAccepting", g |-> game, after |-> <<>>]
    ELSE IF userId \in DOMAIN game.currentRoundAnswers
    THEN [res |-> "AlreadyAnswered", g |-> game, after |-> <<>>]
    ELSE IF now - game.phaseStartTime > game.timeLimitSeconds * 1000 + GraceMs
    THEN [res |-> "TimeExpired", g |-> game, after |-> <<>>]
    ELSE IF answerIndex < 0 \/ answerIndex >= Len(CurrentQuestion(game).answers)
    THEN [res |-> "InvalidAnswerIndex", g |-> game, after |-> <<>>]
    ELSE [res |-> "received",
          g |-> [game EXCEPT !.currentRoundAnswers =
                   [u \in DOMAIN @ \cup {userId} |->
                       IF u = userId
                       THEN [answerIndex |-> answerIndex,
                             timeTakenMs |-> now - game.phaseStartTime,
                             scoreEarned |-> 0,
                             timestamp |-> now]
                       ELSE @[u]]],
          after |-> <<"persist">>]

AnswerComputeMutStrictDeadline(game, userId, answerIndex, now) ==
    IF game.id = 0
    THEN [res |-> "NotFound", g |-> game, after |-> <<>>]
    ELSE IF game.phase # "QUESTION_ACTIVE"
    THEN [res |-> "NotAccepting", g |-> game, after |-> <<>>]
    ELSE IF ~Includes(game.players, userId)
    THEN [res |-> "NotInGame", g |-> game, after |-> <<>>]
    ELSE IF userId \in DOMAIN game.currentRoundAnswers
    THEN [res |-> "AlreadyAnswered", g |-> game, after |-> <<>>]
    ELSE IF now - game.phaseStartTime >= game.timeLimitSeconds * 1000 + GraceMs
    THEN [res |-> "TimeExpired", g |-> game, after |-> <<>>]
    ELSE IF answerIndex < 0 \/ answerIndex >= Len(CurrentQuestion(game).answers)
    THEN [res |-> "InvalidAnswerIndex", g |-> game, after |-> <<>>]
    ELSE [res |-> "received",
          g |-> [game EXCEPT !.currentRoundAnswers =
                   [u \in DOMAIN @ \cup {userId} |->
                       IF u = userId
                       THEN [answerIndex |-> answerIndex,
                             timeTakenMs |-> now - game.phaseStartTime,
                             scoreEarned |-> 0,
                             timestamp |-> now]
                       ELSE @[u]]],
          after |-> <<"persist">>]

\* /answer after the record is loaded.
AnswerCompute(game, userId, answerIndex, now) ==
    IF game.id = 0
    THEN [res |-> "NotFound", g |-> game, after |-> <<>>]
    ELSE IF game.phase # "QUESTION_ACTIVE"
    THEN [res |-> "NotAccepting", g |-> game, after |-> <<>>]
    ELSE IF ~Includes(game.players, userId)
    THEN [res |-> "NotInGame", g |-> game, after |-> <<>>]
    ELSE IF userId \in DOMAIN game.currentRoundAnswers
    THEN [res |-> "AlreadyAnswered", g |-> game, after |-> <<>>]
    ELSE IF now - game.phaseStartTime > game.timeLimitSeconds * 1000 + GraceMs
    THEN [res |-> "TimeExpired", g |-> game, after |-> <<>>]
    ELSE IF answerIndex < 0 \/ answerIndex >= Len(CurrentQuestion(game).answers)
    THEN [res |-> "InvalidAnswerIndex", g |-> game, after |-> <<>>]
    ELSE [res |-> "received",
          g |-> [game EXCEPT !.currentRoundAnswers =
                   [u \in DOMAIN @ \cup {userId} |->
                       IF u = userId
                       THEN [answerIndex |-> answerIndex,
                             timeTakenMs |-> now - game.phaseStartTime,
                             scoreEarned |-> 0,
                             timestamp |-> now]
                       ELSE @[u]]],
          after |-> <<"persist">>]

ScoredAnswersMutAll(game) ==
    [u \in DOMAIN game.currentRoundAnswers |->
        [game.currentRoundAnswers[u] EXCEPT !.scoreEarned =
            Score(TRUE, game.currentRoundAnswers[u].timeTakenMs,
                  game.timeLimitSeconds)]]

\* The scoring loop of /reveal over Object.entries(game.currentRoundAnswers).
ScoredAnswers(game) ==
    [u \in DOMAIN game.currentRoundAnswers |->
        [game.currentRoundAnswers[u] EXCEPT !.scoreEarned =
            Score(game.currentRoundAnswers[u].answerIndex
                      = CurrentQuestion(game).correctAnswer,
                  game.currentRoundAnswers[u].timeTakenMs,
                  game.timeLimitSeconds)]]

\* game.scores[userId] = (game.scores[userId] ?? 0) + record.scoreEarned,
\* for the correct answers only.
ScoresAfterReveal(game) ==
    LET scored == ScoredAnswers(game)
        correct == {u \in DOMAIN scored :
                       scored[u].answerIndex = CurrentQuestion(game).correctAnswer}
    IN  [u \in DOMAIN game.scores \cup correct |->
            (IF u \in DOMAIN game.scores THEN game.scores[u] ELSE 0)
          + (IF u \in correct THEN scored[u].scoreEarned ELSE 0)]

RevealComputeMutNoScores(game, userId) ==
    IF game.id = 0 \/ game.hostId # userId
    THEN [res |-> "Forbidden", g |-> game, after |-> <<>>]
    ELSE IF ~HasCurrentQuestion(game)
    THEN [res |-> "NoCurrentQuestion", g |-> game, after |-> <<>>]
    ELSE [res |-> "ok",
          g |-> [game EXCEPT !.currentRoundAnswers = ScoredAnswers(game),
                             !.phase = "REVEAL_ANSWER"],
          after |-> <<"persist">>]

RevealComputeMutWriteOnError(game, userId) ==
    IF game.id = 0 \/ game.hostId # userId
    THEN [res |-> "Forbidden", g |-> game, after |-> <<>>]
    ELSE IF ~HasCurrentQuestion(game)
    THEN [res |-> "NoCurrentQuestion",
          g |-> [game EXCEPT !.phase = "REVEAL_ANSWER"],
          after |-> <<"persist">>]
    ELSE [res |-> "ok",
          g |-> [game EXCEPT !.currentRoundAnswers = ScoredAnswers(game),
                             !.scores = ScoresAfterReveal(game),
                             !.phase = "REVEAL_ANSWER"],
          after |-> <<"persist">>]

\* /reveal after the record is loaded.
RevealCompute(game, userId) ==
    IF game.id = 0 \/ game.hostId # userId
    THEN [res |-> "Forbidden", g |-> game, after |-> <<>>]
    ELSE IF ~HasCurrentQuestion(game)
    THEN [res |-> "NoCurrentQuestion", g |-> game, after |-> <<>>]
    ELSE [res |-> "ok",
          g |-> [game EXCEPT !.currentRoundAnswers = ScoredAnswers(game),
                             !.scores = ScoresAfterReveal(game),
                             !.phase = "REVEAL_ANSWER"],
          after |-> <<"persist">>]

LeaderboardComputeMutNoAuth(game, userId) ==
    IF game.id = 0
    THEN [res |-> "Forbidden", g |-> game, after |-> <<>>]
    ELSE [res |-> "ok", g |-> [game EXCEPT !.phase = "LEADERBOARD"],
          after |-> <<"persist">>]

\* /leaderboard after the record is loaded.
LeaderboardCompute(game, userId) ==
    IF game.id = 0 \/ game.hostId # userId
    THEN [res |-> "Forbidden", g |-> game, after |-> <<>>]
    ELSE [res |-> "ok", g |-> [game EXCEPT !.phase = "LEADERBOARD"],
          after |-> <<"persist">>]

ResetComputeMutKeepScores(game, userId, now) ==
    IF game.id = 0 \/ game.hostId # userId
    THEN [res |-> "Forbidden", g |-> game, after |-> <<>>]
    ELSE [res |-> "ok",
          g |-> [game EXCEPT
                   !.phase = "LOBBY",
                   !.currentQuestionIndex = -1,
                   !.questions = <<>>,
                   !.currentRoundAnswers = EmptyMap,
                   !.phaseStartTime = now],
          after |-> <<"persist", "setPtr">>]

ResetComputeMutKeepIndex(game, userId, now) ==
    IF game.id = 0 \/ game.hostId # userId
    THEN [res |-> "Forbidden", g |-> game, after |-> <<>>]
    ELSE [res |-> "ok",
          g |-> [game EXCEPT
                   !.phase = "LOBBY",
                   !.questions = <<>>,
                   !.currentRoundAnswers = EmptyMap,
                   !.phaseStartTime = now,
                   !.scores = [u \in {game.players[i] : i \in 1..Len(game.players)}
                                  |-> 0]],
          after |-> <<"persist", "setPtr">>]

\* /reset after the record is loaded.
ResetCompute(game, userId, now) ==
    IF game.id = 0 \/ game.hostId # userId
    THEN [res |-> "Forbidden", g |-> game, after |-> <<>>]
    ELSE [res |-> "ok",
          g |-> [game EXCEPT
                   !.phase = "LOBBY",
                   !.currentQuestionIndex = -1,
                   !.questions = <<>>,
                   !.currentRoundAnswers = EmptyMap,
                   !.phaseStartTime = now,
                   !.scores = [u \in {game.players[i] : i \in 1..Len(game.players)}
                                  |-> 0]],
          after |-> <<"persist", "setPtr">>]

\* /game/connect from the point where there is no usable active game:
\* 404 for everybody but the allow-listed hosts, who get a fresh game.
CreateCompute(userId, newId, now) ==
    IF userId \notin ALLOWED_HOSTS
    THEN [res |-> "NoActiveGame", g |-> NoGame, after |-> <<>>]
    ELSE [res |-> "ok", g |-> NewGame(newId, userId, now),
          after |-> <<"persist", "setPtr">>]

ConnectComputeMutRejoin(game, userId, newId, now) ==
    IF game.id # 0 /\ game.phase = "LOBBY"
    THEN [res |-> "ok",
          g |-> [game EXCEPT
                   !.players = Append(@, userId),
                   !.scores = [u \in DOMAIN @ \cup {userId} |->
                                  IF u = userId THEN 0 ELSE @[u]]],
          after |-> <<"persist">>]
    ELSE CreateCompute(userId, newId, now)

ConnectComputeMutFinished(game, userId, newId, now) ==
    IF game.id # 0
    THEN IF game.phase # "LOBBY"
         THEN IF Includes(game.players, userId)
              THEN [res |-> "ok", g |-> game, after |-> <<>>]
              ELSE [res |-> "InProgress", g |-> game, after |-> <<>>]
         ELSE IF ~Includes(game.players, userId)
              THEN [res |-> "ok",
                    g |-> [game EXCEPT
                             !.players = Append(@, userId),
                             !.scores = [u \in DOMAIN @ \cup {userId} |->
                                            IF u = userId THEN 0 ELSE @[u]]],
                    after |-> <<"persist">>]
              ELSE [res |-> "ok", g |-> game, after |-> <<>>]
    ELSE CreateCompute(userId, newId, now)

ConnectComputeMutNoScore(game, userId, newId, now) ==
    IF game.id # 0 /\ game.phase # "FINISHED"
    THEN IF game.phase # "LOBBY"
         THEN IF Includes(game.players, userId)
              THEN [res |-> "ok", g |-> game, after |-> <<>>]
              ELSE [res |-> "InProgress", g |-> game, after |-> <<>>]
         ELSE IF ~Includes(game.players, userId)
              THEN [res |-> "ok",
                    g |-> [game EXCEPT !.players = Append(@, userId)],
                    after |-> <<"persist">>]
              ELSE [res |-> "ok", g |-> game, after |-> <<>>]
    ELSE CreateCompute(userId, newId, now)

\* /game/connect after the active game's record is loaded.
ConnectCompute(game, userId, newId, now) ==
    IF game.id # 0 /\ game.phase # "FINISHED"
    THEN IF game.phase # "LOBBY"
         THEN IF Includes(game.players, userId)
              THEN [res |-> "ok", g |-> game, after |-> <<>>]
              ELSE [res |-> "InProgress", g |-> game, after |-> <<>>]
         ELSE IF ~Includes(game.players, userId)
              THEN [res |-> "ok",
                    g |-> [game EXCEPT
                             !.players = Append(@, userId),
                             !.scores = [u \in DOMAIN @ \cup {userId} |->
                                            IF u = userId THEN 0 ELSE @[u]]],
                    after |-> <<"persist">>]
              ELSE [res |-> "ok", g |-> game, after |-> <<>>]
    ELSE CreateCompute(userId, newId, now)

\* ------------------------------------------------------------------------
\* Visibility filter
\* ------------------------------------------------------------------------

sanitizeMutLeak(game, userId) ==
    IF game.hostId = userId THEN game
    ELSE
    LET base == [id |-> game.id,
                 phase |-> game.phase,
                 hostId |-> game.hostId,
                 currentQuestionIndex |-> game.currentQuestionIndex,
                 phaseStartTime |-> game.phaseStartTime,
                 timeLimitSeconds |-> game.timeLimitSeconds,
                 players |-> game.players,
                 scores |-> game.scores,
                 userHasAnswered |-> userId \in DOMAIN game.currentRoundAnswers,
                 totalQuestions |-> Len(game.questions)]
    IN  IF HasCurrentQuestion(game)
        THEN base @@ [currentQuestion |-> CurrentQuestion(game)]
        ELSE base

sanitizeMutAnswered(game, userId) ==
    IF game.hostId = userId THEN game
    ELSE
    LET base == [id |-> game.id,
                 phase |-> game.phase,
                 hostId |-> game.hostId,
                 currentQuestionIndex |-> game.currentQuestionIndex,
                 phaseStartTime |-> game.phaseStartTime,
                 timeLimitSeconds |-> game.timeLimitSeconds,
                 players |-> game.players,
                 scores |-> game.scores,
                 userHasAnswered |-> userId \in DOMAIN game.currentRoundAnswers,
                 answered |-> DOMAIN game.currentRoundAnswers,
                 totalQuestions |-> Len(game.questions)]
    IN  IF HasCurrentQuestion(game) /\ game.phase # "LOBBY"
        THEN base @@ [currentQuestion |->
                         [text |-> CurrentQuestion(game).text,
                          answers |-> CurrentQuestion(game).answers]]
        ELSE base

\* sanitizeGameState(game, userId): the projection is a record whose fields
\* are the keys of the object the function returns.
sanitizeGameState(game, userId) ==
    IF game.hostId = userId THEN game
    ELSE
    LET hasA == userId \in DOMAIN game.currentRoundAnswers
        myAnswer == game.currentRoundAnswers[userId]
        base == [id |-> game.id,
                 phase |-> game.phase,
                 hostId |-> game.hostId,
                 currentQuestionIndex |-> game.currentQuestionIndex,
                 phaseStartTime |-> game.phaseStartTime,
                 timeLimitSeconds |-> game.timeLimitSeconds,
                 players |-> game.players,
                 scores |-> game.scores,
                 userHasAnswered |-> hasA,
                 totalQuestions |-> Len(game.questions)]
    IN  IF game.phase \in {"QUESTION_ACTIVE", "QUESTION_READ",
                           "WAITING_FOR_HOST", "STARTING"}
        THEN IF HasCurrentQuestion(game)
             THEN base @@ [currentQuestion |->
                              [text |-> CurrentQuestion(game).text,
                               answers |-> CurrentQuestion(game).answers]]
             ELSE base
        ELSE IF game.phase = "REVEAL_ANSWER"
        THEN (IF HasCurrentQuestion(game)
              THEN [currentQuestion |-> CurrentQuestion(game)]
              ELSE EmptyMap)
             @@ (IF hasA
                 THEN [roundResult |->
                          [answerIndex |-> myAnswer.answerIndex,
                           scoreEarned |-> myAnswer.scoreEarned,
                           isCorrect |-> (HasCurrentQuestion(game)
                                /\ myAnswer.answerIndex
                                       = CurrentQuestion(game).correctAnswer)]]
                 ELSE EmptyMap)
             @@ base
        ELSE base


\* GET /game/:gameId after the record is loaded: 404 when there is none, 403
\* for a caller who is neither a player nor the host, otherwise the caller's
\* projection of the record.
GetGameComputeMutRaw(game, userId) ==
    IF game.id = 0
    THEN [res |-> "NotFound", view |-> EmptyMap]
    ELSE IF ~Includes(game.players, userId) /\ game.hostId # userId
    THEN [res |-> "NotInGame", view |-> EmptyMap]
    ELSE [res |-> "ok", view |-> game]

GetGameCompute(game, userId) ==
    IF game.id = 0
    THEN [res |-> "NotFound", view |-> EmptyMap]
    ELSE IF ~Includes(game.players, userId) /\ game.hostId # userId
    THEN [res |-> "NotInGame", view |-> EmptyMap]
    ELSE [res |-> "ok", view |-> sanitizeGameState(game, userId)]

\* ------------------------------------------------------------------------
\* State
\* ------------------------------------------------------------------------
VARIABLES
    games,        \* kv store, keys game:<id> : [stored ids -> GameState]
    activeGame,   \* kv store, key activeGame : a game id, 0 when unset
    reqs,         \* the requests that are between two awaits, by slot
    tick,         \* index of the current clock reading
    left,         \* commands that may still be admitted
    uuid,         \* game ids handed out by crypto.randomUUID so far
    ver,          \* history: number of kv.set of each game record
    acked,        \* history: answers acknowledged with status "received"
    calc,         \* scoring function applied in isolation (SpecScore)
    revealedAt,   \* history: the writes of a record in REVEAL_ANSWER
    socketUsers,  \* socketUsers map: socket id -> {userId, gameId}
    rooms,        \* socket.io rooms game:<id> each socket is in
    inbox,        \* the last state_update each socket was sent
    polled        \* the last response of GET /game/:gameId

vars == <<games, activeGame, reqs, tick, left, uuid, ver, acked, calc,
          revealedAt, socketUsers, rooms, inbox, polled>>

Sockets == {"s1", "s2"}

NoMsg == [gid |-> 0, view |-> EmptyMap]

NoPoll == [caller |-> "", gid |-> 0, res |-> "", view |-> EmptyMap]

\* No socket is connected and nobody has polled.
NoViewers ==
    /\ socketUsers = EmptyMap
    /\ rooms = [k \in Sockets |-> {}]
    /\ inbox = [k \in Sockets |-> NoMsg]
    /\ polled = NoPoll

Slots == 1..MaxInFlight

now == Clock(tick)

NoArg == [questions |-> <<>>, tl |-> <<>>, answerIndex |-> 0]

NoSeen == [ver |-> 0, phase |-> "NONE", idx |-> -1]

Idle == [op |-> "idle", caller |-> "", gid |-> 0, arg |-> NoArg, pc |-> "idle",
         after |-> <<>>, g |-> NoGame, res |-> "", seen |-> NoSeen]

NoCalc == [T |-> 0, ms |-> 0, correct |-> FALSE, out |-> -1]

\* kv.get(`game:${id}`)
Stored(id) == IF id \in DOMAIN games THEN games[id] ELSE NoGame

VerOf(id) == IF id \in DOMAIN ver THEN ver[id] ELSE 0

\* History carried by a request: write count, phase and question index of the
\* record it loaded.
SeenAt(id) ==
    [ver |-> VerOf(id), phase |-> Stored(id).phase,
     idx |-> IF id \in DOMAIN games THEN games[id].currentQuestionIndex ELSE -1]

\* History: record g has been written in REVEAL_ANSWER as the v-th write of
\* its key.
RevealOf(g, v) ==
    [gid |-> g.id, idx |-> g.currentQuestionIndex, t0 |-> g.phaseStartTime,
     ver |-> v]

\* The request moves to its next awaited store operation.  After the last
\* one the handler only sends what it holds (pushes, then the response) and
\* touches the store no more: the request is over.
Proceed(r) ==
    IF r.after = <<>>
    THEN Idle
    ELSE [r EXCEPT !.pc = Head(r.after), !.after = Tail(r.after)]

Computed(r, c) == Proceed([r EXCEPT !.g = c.g, !.res = c.res, !.after = c.after])

\* The synchronous code of a handler once kv.get of the game record returned.
Handle(op, caller, arg, game) ==
    CASE op = "connect" -> ConnectCompute(game, caller, uuid + 1, now)
      [] op = "start" -> StartCompute(game, caller, arg.questions, arg.tl, now)
      [] op = "next" -> NextCompute(game, caller, now)
      [] op = "answer" -> AnswerCompute(game, caller, arg.answerIndex, now)
      [] op = "reveal" -> RevealCompute(game, caller)
      [] op = "leaderboard" -> LeaderboardCompute(game, caller)
      [] op = "reset" -> ResetCompute(game, caller, now)

\* ------------------------------------------------------------------------
\* Initial states: the empty store of a fresh server, and the records that a
\* game reaches when its first commands are handled one after the other at
\* clock reading 0 (host h1 connects, p1 and p2 join, h1 starts a quiz with
\* timeLimitSeconds 1, h1 sends next).  Each is built with the handlers
\* themselves; the behaviours of Spec continue from there.
\* ------------------------------------------------------------------------
LobbyGame ==
    ConnectCompute(ConnectCompute(NewGame(1, "h1", Clock(0)), "p1", 2, Clock(0)).g,
                   "p2", 2, Clock(0)).g

ActiveGame(qs) ==
    NextCompute(StartCompute(LobbyGame, "h1", qs, <<1>>, Clock(0)).g,
                "h1", Clock(0)).g

\* h1 has started the quiz: the record is in STARTING.
StartedGame(qs) == StartCompute(LobbyGame, "h1", qs, <<1>>, Clock(0)).g

\* p1 has answered option 1 at once, then h1 has sent reveal.
RevealedGame(qs) ==
    RevealCompute(AnswerCompute(ActiveGame(qs), "p1", 1, Clock(0)).g, "h1").g

P1Ack == [gid |-> 1, idx |-> 0, t0 |-> Clock(0), userId |-> "p1", ver |-> 6]

\* h1 has then sent leaderboard.
LeaderboardGame(qs) == LeaderboardCompute(RevealedGame(qs), "h1").g

\* [game record, number of writes that produced it, acknowledged answers]
Checkpoints ==
    {<<LobbyGame, 3, {}>>}
    \cup {<<ActiveGame(<<QSky>>), 5, {}>>}
    \cup {<<RevealedGame(<<QSky, QSum>>), 7, {P1Ack}>>}

InitStore(k) ==
    /\ games = [i \in {1} |-> k[1]]
    /\ activeGame = 1
    /\ uuid = 1
    /\ ver = [i \in {1} |-> k[2]]
    /\ acked = k[3]
    /\ revealedAt = IF k[2] >= 7 THEN {RevealOf(k[1], 7)} ELSE {}

InitRest(budget) ==
    /\ reqs = [s \in Slots |-> Idle]
    /\ tick = 0
    /\ left = budget
    /\ NoViewers

Init ==
    /\ \/ /\ games = EmptyMap
          /\ activeGame = 0
          /\ uuid = 0
          /\ ver = EmptyMap
          /\ acked = {}
          /\ revealedAt = {}
       \/ \E k \in Checkpoints : InitStore(k)
    /\ InitRest(MaxCmds)
    /\ calc = NoCalc

\* One round of play: the game is in QUESTION_ACTIVE.
InitRound ==
    /\ \E qs \in Quizzes : InitStore(<<ActiveGame(qs), 5, {}>>)
    /\ InitRest(MaxRoundCmds)
    /\ calc = NoCalc

\* ------------------------------------------------------------------------
\* Arrival of a command: the handler runs to its first await of the store
\* that is followed by a write.  A command that is answered without a write
\* (an error, or a read) returns at once and leaves the state as it is.
\* ------------------------------------------------------------------------
FreeSlot(s) ==
    /\ reqs[s].op = "idle"
    /\ \A t \in Slots : t < s => reqs[t].op # "idle"
    /\ left > 0

\* Handlers that start with kv.get(`game:${gameId}`).
Arrive(s, op, caller, gid, arg) ==
    LET r == [Idle EXCEPT !.op = op, !.caller = caller, !.gid = gid,
                          !.arg = arg, !.seen = SeenAt(gid)]
        c == Handle(op, caller, arg, Stored(gid))
    IN
    /\ FreeSlot(s)
    /\ IF c.after = <<>>
       THEN UNCHANGED <<reqs, left>>
       ELSE /\ reqs' = [reqs EXCEPT ![s] = Computed(r, c)]
            /\ left' = left - 1
    /\ UNCHANGED <<games, activeGame, tick, uuid, ver, acked, calc,
                   revealedAt, socketUsers, rooms, inbox, polled>>

InvokeStart(s, u, gid, qs, tl) ==
    Arrive(s, "start", u, gid, [NoArg EXCEPT !.questions = qs, !.tl = tl])

InvokeNext(s, u, gid) == Arrive(s, "next", u, gid, NoArg)

InvokeAnswer(s, u, gid, a) ==
    Arrive(s, "answer", u, gid, [NoArg EXCEPT !.answerIndex = a])

InvokeReveal(s, u, gid) == Arrive(s, "reveal", u, gid, NoArg)

InvokeLeaderboard(s, u, gid) == Arrive(s, "leaderboard", u, gid, NoArg)

InvokeReset(s, u, gid) == Arrive(s, "reset", u, gid, NoArg)

\* /game/connect up to the return of kv.get("activeGame").
InvokeConnect(s, u) ==
    LET r == [Idle EXCEPT !.op = "connect", !.caller = u]
        c == CreateCompute(u, uuid + 1, now)
    IN
    /\ FreeSlot(s)
    /\ IF activeGame # 0
       THEN /\ reqs' = [reqs EXCEPT ![s] = [r EXCEPT !.gid = activeGame, !.pc = "load"]]
            /\ left' = left - 1
            /\ uuid' = uuid
       ELSE IF c.after = <<>>
       THEN UNCHANGED <<reqs, left, uuid>>
       ELSE /\ reqs' = [reqs EXCEPT ![s] = Computed(r, c)]
            /\ left' = left - 1
            /\ uuid' = uuid + 1
    /\ UNCHANGED <<games, activeGame, tick, ver, acked, calc,
                   revealedAt, socketUsers, rooms, inbox, polled>>

InvokeTerminateMutAnyone(s, u) ==
    /\ FreeSlot(s)
    /\ reqs' = [reqs EXCEPT ![s] =
                  [Idle EXCEPT !.op = "terminate", !.caller = u, !.res = "ok",
                               !.gid = activeGame, !.pc = "delPtr"]]
    /\ left' = left - 1
    /\ UNCHANGED <<games, activeGame, tick, uuid, ver, acked, calc,
                   revealedAt, socketUsers, rooms, inbox, polled>>

\* /debug/reset-server up to the return of kv.get("activeGame").
InvokeTerminate(s, u) ==
    /\ FreeSlot(s)
    /\ IF u \notin ALLOWED_HOSTS
       THEN UNCHANGED <<reqs, left>>
       ELSE /\ reqs' = [reqs EXCEPT ![s] =
                  [Idle EXCEPT !.op = "terminate", !.caller = u, !.res = "ok",
                               !.gid = activeGame, !.pc = "delPtr"]]
            /\ left' = left - 1
    /\ UNCHANGED <<games, activeGame, tick, uuid, ver, acked, calc,
                   revealedAt, socketUsers, rooms, inbox, polled>>

\* GET /game/:gameId: one read of the record; the response is computed from
\* what was read.
GetGame(u, gid) ==
    LET c == GetGameCompute(Stored(gid), u) IN
    /\ polled' = [caller |-> u, gid |-> gid, res |-> c.res, view |-> c.view]
    /\ UNCHANGED <<games, activeGame, reqs, tick, left, uuid, ver, acked, calc,
                   revealedAt, socketUsers, rooms, inbox>>

\* socket.on("join_game") with the session of user u: the socket enters the
\* room, socketUsers takes the session's identity, and the socket is sent
\* the projection of the stored record for that identity.
JoinGame(k, u, gid) ==
    /\ socketUsers' = [j \in DOMAIN socketUsers \cup {k} |->
                          IF j = k THEN [userId |-> u, gameId |-> gid]
                          ELSE socketUsers[j]]
    /\ rooms' = [rooms EXCEPT ![k] = @ \cup {gid}]
    /\ inbox' = IF Stored(gid).id # 0
                THEN [inbox EXCEPT ![k] =
                         [gid |-> gid, view |-> sanitizeGameState(Stored(gid), u)]]
                ELSE inbox
    /\ UNCHANGED <<games, activeGame, reqs, tick, left, uuid, ver, acked, calc,
                   revealedAt, polled>>

\* socket.on("disconnect"): the socket has left its rooms and its entry of
\* socketUsers is deleted.  A later connection is a socket that has received
\* nothing.
Disconnect(k) ==
    /\ k \in DOMAIN socketUsers
    /\ socketUsers' = [j \in DOMAIN socketUsers \ {k} |-> socketUsers[j]]
    /\ rooms' = [rooms EXCEPT ![k] = {}]
    /\ inbox' = [inbox EXCEPT ![k] = NoMsg]
    /\ UNCHANGED <<games, activeGame, reqs, tick, left, uuid, ver, acked, calc,
                   revealedAt, polled>>

\* ------------------------------------------------------------------------
\* Steps of a request
\* ------------------------------------------------------------------------

\* /game/connect: await kv.get(`game:${activeGameId}`) and the synchronous
\* code up to the next await.
Load(s) ==
    LET r == reqs[s]
        c == Handle(r.op, r.caller, r.arg, Stored(r.gid))
    IN
    /\ r.pc = "load"
    /\ reqs' = [reqs EXCEPT ![s] =
                  IF c.after = <<>> THEN Idle
                  ELSE [Computed(r, c) EXCEPT !.seen = SeenAt(r.gid)]]
    /\ uuid' = IF c.g.id = uuid + 1 THEN uuid + 1 ELSE uuid
    /\ UNCHANGED <<games, activeGame, tick, left, ver, acked, calc,
                   revealedAt, socketUsers, rooms, inbox, polled>>

broadcastToGameMutShared(gameId, game) ==
    [k \in Sockets |->
        IF gameId \in rooms[k]
        THEN [gid |-> gameId, view |-> sanitizeGameState(game, "ANONYMOUS")]
        ELSE inbox[k]]

\* broadcastToGame(gameId, game): every socket of the room is sent the
\* projection for the identity socketUsers holds for it, 'ANONYMOUS' when it
\* holds none.  The value is the inboxes after the call.
broadcastToGame(gameId, game) ==
    [k \in Sockets |->
        IF gameId \in rooms[k]
        THEN [gid |-> gameId,
              view |-> sanitizeGameState(game,
                          IF k \in DOMAIN socketUsers
                          THEN socketUsers[k].userId ELSE "ANONYMOUS")]
        ELSE inbox[k]]

\* findSocketByUserId(userId, gameId): the first entry of socketUsers that
\* matches, in the map's insertion order, which the model does not keep: any
\* of the matching sockets.
findSocketByUserId(userId, gameId) ==
    {k \in DOMAIN socketUsers :
        socketUsers[k].userId = userId /\ socketUsers[k].gameId = gameId}

\* What a handler sends to the sockets once its last store operation has
\* returned: /answer pushes the caller's own projection to the caller's
\* socket, /game/connect pushes nothing when it has created a game,
\* /debug/reset-server sends no state_update, every other handler
\* broadcasts the record it holds.  The value is the set of possible inboxes.
Pushes(r) ==
    IF r.after # <<>> \/ r.op = "terminate" \/ (r.op = "connect" /\ r.pc = "setPtr")
    THEN {inbox}
    ELSE IF r.op = "answer"
    THEN IF findSocketByUserId(r.caller, r.g.id) = {}
         THEN {inbox}
         ELSE {[inbox EXCEPT ![k] = [gid |-> r.g.id,
                                     view |-> sanitizeGameState(r.g, r.caller)]] :
                  k \in findSocketByUserId(r.caller, r.g.id)}
    ELSE {broadcastToGame(r.g.id, r.g)}

\* The round an answer belongs to, and the player it belongs to.
AckOf(r) ==
    [gid |-> r.g.id, idx |-> r.g.currentQuestionIndex,
     t0 |-> r.g.phaseStartTime, userId |-> r.caller, ver |-> VerOf(r.g.id) + 1]

\* await kv.set(`game:${gameId}`, game); /answer acknowledges right after it.
Persist(s) ==
    LET r == reqs[s] IN
    /\ r.pc = "persist"
    /\ games' = [i \in DOMAIN games \cup {r.g.id} |->
                    IF i = r.g.id THEN r.g ELSE games[i]]
    /\ ver' = [i \in DOMAIN ver \cup {r.g.id} |->
                    IF i = r.g.id THEN VerOf(i) + 1 ELSE ver[i]]
    /\ reqs' = [reqs EXCEPT ![s] = Proceed(r)]
    /\ acked' = IF r.op = "answer" THEN acked \cup {AckOf(r)} ELSE acked
    /\ revealedAt' = IF r.g.phase = "REVEAL_ANSWER"
                     THEN revealedAt \cup {RevealOf(r.g, VerOf(r.g.id) + 1)}
                     ELSE revealedAt
    /\ inbox' \in Pushes(r)
    /\ UNCHANGED <<activeGame, tick, left, uuid, calc, socketUsers, rooms, polled>>

\* await kv.del("activeGame")
DelPtr(s) ==
    LET r == reqs[s] IN
    /\ r.pc = "delPtr"
    /\ activeGame' = 0
    /\ reqs' = [reqs EXCEPT ![s] = Proceed(r)]
    /\ inbox' \in Pushes(r)
    /\ UNCHANGED <<games, tick, left, uuid, ver, acked, calc,
                   revealedAt, socketUsers, rooms, polled>>

\* await kv.set("activeGame", gameId)
SetPtr(s) ==
    LET r == reqs[s] IN
    /\ r.pc = "setPtr"
    /\ activeGame' = r.g.id
    /\ reqs' = [reqs EXCEPT ![s] = Proceed(r)]
    /\ inbox' \in Pushes(r)
    /\ UNCHANGED <<games, tick, left, uuid, ver, calc, acked,
                   revealedAt, socketUsers, rooms, polled>>

\* Date.now() moves on.
Tick ==
    /\ tick < MaxTick
    /\ tick' = tick + 1
    /\ UNCHANGED <<games, activeGame, reqs, left, uuid, ver, acked, calc,
                   revealedAt, socketUsers, rooms, inbox, polled>>

GameIds == 1..uuid

Next ==
    \/ \E s \in Slots, u \in Callers : InvokeConnect(s, u)
    \/ \E s \in Slots, u \in Callers, gid \in GameIds, qs \in Quizzes :
          InvokeStart(s, u, gid, qs, <<>>)
    \/ \E s \in Slots, u \in Callers, gid \in GameIds : InvokeNext(s, u, gid)
    \/ \E s \in Slots, u \in Users, gid \in GameIds, a \in AnswerInputs :
          InvokeAnswer(s, u, gid, a)
    \/ \E s \in Slots, u \in Callers, gid \in GameIds : InvokeReveal(s, u, gid)
    \/ \E s \in Slots, u \in Callers, gid \in GameIds : InvokeLeaderboard(s, u, gid)
    \/ \E s \in Slots, u \in Callers, gid \in GameIds : InvokeReset(s, u, gid)
    \/ \E s \in Slots, u \in Callers : InvokeTerminate(s, u)
    \/ \E s \in Slots : Load(s)
    \/ \E s \in Slots : Persist(s)
    \/ \E s \in Slots : DelPtr(s)
    \/ \E s \in Slots : SetPtr(s)
    \/ Tick

Spec == Init /\ [][Next]_vars

\* The commands of one round: answers, reveal, next.
NextRound ==
    \/ \E s \in Slots, u \in Callers, gid \in GameIds, a \in AnswerInputs :
          InvokeAnswer(s, u, gid, a)
    \/ \E s \in Slots, u \in Callers, gid \in GameIds : InvokeReveal(s, u, gid)
    \/ \E s \in Slots, u \in Callers, gid \in GameIds : InvokeNext(s, u, gid)
    \/ \E s \in Slots : Persist(s)
    \/ \E s \in Slots : DelPtr(s)
    \/ Tick

SpecRound == InitRound /\ [][NextRound]_vars

\* Answer commands alone, during one QUESTION_ACTIVE phase.
InitAnswers ==
    /\ \E qs \in Quizzes : InitStore(<<ActiveGame(qs), 5, {}>>)
    /\ InitRest(MaxRoundCmds)
    /\ calc = NoCalc

NextAnswers ==
    \/ \E s \in Slots, u \in Callers, gid \in GameIds, a \in AnswerInputs :
          InvokeAnswer(s, u, gid, a)
    \/ \E s \in Slots : Persist(s)
    \/ Tick

SpecAnswers == InitAnswers /\ [][NextAnswers]_vars

\* The host's next commands alone, on a game that shows an answer or the
\* leaderboard.
InitDoubleNext ==
    /\ \E qs \in Quizzes :
          \/ InitStore(<<RevealedGame(qs), 7, {P1Ack}>>)
          \/ InitStore(<<LeaderboardGame(qs), 8, {P1Ack}>>)
    /\ InitRest(MaxCmds)
    /\ calc = NoCalc

NextDoubleNext ==
    \/ \E s \in Slots, u \in Callers, gid \in GameIds : InvokeNext(s, u, gid)
    \/ \E s \in Slots : Persist(s)
    \/ \E s \in Slots : DelPtr(s)
    \/ Tick

SpecDoubleNext == InitDoubleNext /\ [][NextDoubleNext]_vars

\* Connect commands alone, on a game in LOBBY: the host's fresh game, or the
\* game p1 and p2 have joined.
HostLobby == NewGame(1, "h1", Clock(0))

InitLobby ==
    /\ \/ InitStore(<<HostLobby, 1, {}>>)
       \/ InitStore(<<LobbyGame, 3, {}>>)
    /\ InitRest(MaxRoundCmds)
    /\ calc = NoCalc

NextLobby ==
    \/ \E s \in Slots, u \in Callers : InvokeConnect(s, u)
    \/ \E s \in Slots : Load(s)
    \/ \E s \in Slots : Persist(s)
    \/ Tick

SpecLobby == InitLobby /\ [][NextLobby]_vars

\* The end of a game: the host's next on the last question, and Connects of
\* identities that are not on the allow-list.
InitFinish ==
    /\ \/ InitStore(<<RevealedGame(<<QSky>>), 7, {P1Ack}>>)
       \/ InitStore(<<LeaderboardGame(<<QSky>>), 8, {P1Ack}>>)
    /\ InitRest(MaxRoundCmds)
    /\ calc = NoCalc

NextFinish ==
    \/ \E s \in Slots, u \in Callers, gid \in GameIds : InvokeNext(s, u, gid)
    \/ \E s \in Slots, u \in Players : InvokeConnect(s, u)
    \/ \E s \in Slots : Load(s)
    \/ \E s \in Slots : Persist(s)
    \/ \E s \in Slots : DelPtr(s)
    \/ Tick

SpecFinish == InitFinish /\ [][NextFinish]_vars

\* Start commands alone, with well-formed and malformed question lists and
\* with time limits below, inside and above the accepted range, on a game in
\* LOBBY (fresh, or joined by p1 and p2) or with a question active.
BadQuizzes ==
    {<<>>,
     <<[text |-> "", answers |-> <<"a", "b">>, correctAnswer |-> 0]>>,
     <<[text |-> "one", answers |-> <<"a">>, correctAnswer |-> 0]>>,
     <<[text |-> "high", answers |-> <<"a", "b">>, correctAnswer |-> 2]>>,
     <<[text |-> "low", answers |-> <<"a", "b">>, correctAnswer |-> -1]>>,
     <<QSky, [text |-> "high", answers |-> <<"a", "b">>, correctAnswer |-> 2]>>}

StartInputs == Quizzes \cup BadQuizzes

TimeLimitInputs == {<<>>, <<1>>, <<60>>, <<999>>}

InitStart ==
    /\ \/ InitStore(<<HostLobby, 1, {}>>)
       \/ InitStore(<<LobbyGame, 3, {}>>)
       \/ InitStore(<<ActiveGame(<<QSky>>), 5, {}>>)
    /\ InitRest(MaxCmds)
    /\ calc = NoCalc

NextStart ==
    \/ \E s \in Slots, u \in Callers, gid \in GameIds, qs \in StartInputs,
          tl \in TimeLimitInputs : InvokeStart(s, u, gid, qs, tl)
    \/ \E s \in Slots : Persist(s)
    \/ Tick

SpecStart == InitStart /\ [][NextStart]_vars

\* Answer commands alone, arriving at any of the clock readings 0, 5000,
\* 7000 and 7001 (the limit of the active question is 5 s, so 7000 is the end
\* of the grace window), from members and from h2, with option indexes in
\* and out of range; the game has a question active or an answer revealed.
MaxReading == 3

WindowAnswerInputs == {-1, 0, 1, 2}

InitWindow ==
    /\ \E qs \in Quizzes :
          \/ InitStore(<<ActiveGame(qs), 5, {}>>)
          \/ InitStore(<<RevealedGame(qs), 7, {P1Ack}>>)
    /\ reqs = [s \in Slots |-> Idle]
    /\ tick \in 0..MaxReading
    /\ left = MaxCmds
    /\ NoViewers
    /\ calc = NoCalc

NextWindow ==
    \/ \E s \in Slots, u \in Users, gid \in GameIds, a \in WindowAnswerInputs :
          InvokeAnswer(s, u, gid, a)
    \/ \E s \in Slots : Persist(s)

SpecWindow == InitWindow /\ [][NextWindow]_vars

\* Connects and the host's start, on the host's fresh game.
InitLobbyStart ==
    /\ InitStore(<<HostLobby, 1, {}>>)
    /\ InitRest(MaxCmds)
    /\ calc = NoCalc

NextLobbyStart ==
    \/ \E s \in Slots, u \in Callers : InvokeConnect(s, u)
    \/ \E s \in Slots, u \in Callers, gid \in GameIds, qs \in Quizzes :
          InvokeStart(s, u, gid, qs, <<>>)
    \/ \E s \in Slots : Load(s)
    \/ \E s \in Slots : Persist(s)
    \/ Tick

SpecLobbyStart == InitLobbyStart /\ [][NextLobbyStart]_vars

\* Polling: the commands of one round on the one-question game, and GET
\* /game/:gameId by the host, the players and h2 at any moment.
InitPoll ==
    /\ InitStore(<<ActiveGame(<<QSky>>), 5, {}>>)
    /\ InitRest(MaxCmds)
    /\ calc = NoCalc

NextPoll ==
    \/ \E s \in Slots, u \in Players, gid \in GameIds, a \in AnswerInputs :
          InvokeAnswer(s, u, gid, a)
    \/ \E s \in Slots, u \in Callers, gid \in GameIds : InvokeReveal(s, u, gid)
    \/ \E s \in Slots, u \in Callers, gid \in GameIds : InvokeNext(s, u, gid)
    \/ \E s \in Slots : Persist(s)
    \/ \E s \in Slots : DelPtr(s)
    \/ \E u \in Users, gid \in GameIds : GetGame(u, gid)

SpecPoll == InitPoll /\ [][NextPoll]_vars

\* Pushes: sockets join the room of the one-question game with the session
\* of the host, of a player or of h2, and leave, while the commands of one
\* round are handled.
InitPush ==
    /\ InitStore(<<ActiveGame(<<QSky>>), 5, {}>>)
    /\ InitRest(MaxCmds)
    /\ calc = NoCalc

NextPush ==
    \/ \E k \in Sockets, u \in Users, gid \in GameIds : JoinGame(k, u, gid)
    \/ \E k \in Sockets : Disconnect(k)
    \/ \E s \in Slots, u \in Players, gid \in GameIds, a \in AnswerInputs :
          InvokeAnswer(s, u, gid, a)
    \/ \E s \in Slots, u \in Callers, gid \in GameIds : InvokeReveal(s, u, gid)
    \/ \E s \in Slots, u \in Callers, gid \in GameIds : InvokeNext(s, u, gid)
    \/ \E s \in Slots : Persist(s)
    \/ \E s \in Slots : DelPtr(s)

SpecPush == InitPush /\ [][NextPush]_vars

\* A whole game: h1 has started game 1 and sends next and reveal in
\* alternation, next first, each when the one before has returned, and
\* stops when the stored record is FINISHED; meanwhile the players answer.
\* Every command of the host writes the record once, every accepted answer
\* once: the host's commands so far are the writes that are not answers.
HostWrites == VerOf(1) - 4 - Cardinality({a \in acked : a.gid = 1})

HostCommand(s) ==
    /\ \A t \in Slots : reqs[t].caller # "h1"
    /\ Stored(1).phase # "FINISHED"
    /\ IF HostWrites % 2 = 0
       THEN InvokeNext(s, "h1", 1)
       ELSE InvokeReveal(s, "h1", 1)

InitRun ==
    /\ \E qs \in Quizzes : InitStore(<<StartedGame(qs), 4, {}>>)
    /\ InitRest(2 * MaxRoundCmds)
    /\ calc = NoCalc

NextRun ==
    \/ \E s \in Slots : HostCommand(s)
    \/ \E s \in Slots, u \in Players, gid \in GameIds, a \in AnswerInputs :
          InvokeAnswer(s, u, gid, a)
    \/ \E s \in Slots : Persist(s)
    \/ \E s \in Slots : DelPtr(s)

SpecRun == InitRun /\ [][NextRun]_vars

\* Answers of the players and reveals, on a game with a question active.
InitReveal ==
    /\ \E qs \in Quizzes : InitStore(<<ActiveGame(qs), 5, {}>>)
    /\ InitRest(MaxRoundCmds)
    /\ calc = NoCalc

NextReveal ==
    \/ \E s \in Slots, u \in Players, gid \in GameIds, a \in AnswerInputs :
          InvokeAnswer(s, u, gid, a)
    \/ \E s \in Slots, u \in Callers, gid \in GameIds : InvokeReveal(s, u, gid)
    \/ \E s \in Slots : Persist(s)

SpecReveal == InitReveal /\ [][NextReveal]_vars

\* Two games: game 1 was terminated while it had a question active or showed
\* an answer, and h2 has then created game 2, which the pointer designates.
\* The commands of the host of game 1 go on, and players connect.
InitTwoGames ==
    /\ \E k \in {<<ActiveGame(<<QSky>>), 5, {}>>, <<RevealedGame(<<QSky>>), 7, {P1Ack}>>} :
          /\ games = (2 :> NewGame(2, "h2", Clock(0))) @@ (1 :> k[1])
          /\ ver = (2 :> 1) @@ (1 :> k[2])
          /\ acked = k[3]
          /\ revealedAt = IF k[2] >= 7 THEN {RevealOf(k[1], 7)} ELSE {}
    /\ activeGame = 2
    /\ uuid = 2
    /\ InitRest(MaxCmds)
    /\ calc = NoCalc

NextTwoGames ==
    \/ \E s \in Slots, u \in Callers, gid \in GameIds : InvokeNext(s, u, gid)
    \/ \E s \in Slots, u \in Callers, gid \in GameIds : InvokeReveal(s, u, gid)
    \/ \E s \in Slots, u \in Callers, gid \in GameIds : InvokeReset(s, u, gid)
    \/ \E s \in Slots, u \in Players : InvokeConnect(s, u)
    \/ \E s \in Slots : Load(s)
    \/ \E s \in Slots : Persist(s)
    \/ \E s \in Slots : DelPtr(s)
    \/ \E s \in Slots : SetPtr(s)

SpecTwoGames == InitTwoGames /\ [][NextTwoGames]_vars

\* The phases in which the current question is shown without its answer: the
\* game has just been started (STARTING) or has a question active; the host
\* sends next and the players answer.
InitHidden ==
    /\ \E qs \in Quizzes :
          \/ InitStore(<<StartedGame(qs), 4, {}>>)
          \/ InitStore(<<ActiveGame(qs), 5, {}>>)
    /\ InitRest(MaxCmds)
    /\ calc = NoCalc

NextHidden ==
    \/ \E s \in Slots, u \in Callers, gid \in GameIds : InvokeNext(s, u, gid)
    \/ \E s \in Slots, u \in Players, gid \in GameIds, a \in AnswerInputs :
          InvokeAnswer(s, u, gid, a)
    \/ \E s \in Slots : Persist(s)

SpecHidden == InitHidden /\ [][NextHidden]_vars

\* The scoring of one answer, for every time limit a record can hold and
\* elapsed times over the whole window in which /answer accepts
\* (0 .. timeLimitSeconds * 1000 + 2000, every half second and the
\* milliseconds around the limit).
ElapsedSamples(T) ==
    {500 * k : k \in 0..(2 * T + 4)}
    \cup {1, T * 1000 - 1, T * 1000 + 1, T * 1000 + GraceMs - 1}

InitScore ==
    /\ games = EmptyMap
    /\ activeGame = 0
    /\ uuid = 0
    /\ ver = EmptyMap
    /\ acked = {}
    /\ revealedAt = {}
    /\ InitRest(0)
    /\ \E T \in MinTimeLimit..MaxTimeLimit, ok \in BOOLEAN :
          \E ms \in ElapsedSamples(T) :
             calc = [T |-> T, ms |-> ms, correct |-> ok, out |-> -1]

ApplyScore ==
    /\ calc.out = -1
    /\ calc' = [calc EXCEPT !.out = Score(calc.correct, calc.ms, calc.T)]
    /\ UNCHANGED <<games, activeGame, reqs, tick, left, uuid, ver, acked,
                   revealedAt, socketUsers, rooms, inbox, polled>>

SpecScore == InitScore /\ [][ApplyScore]_vars

\* The scoring of one answer by both server variants, on the same inputs as
\* SpecScore.
PriorScores == {<<>>, <<0>>, <<750>>}

InitVariants ==
    /\ games = EmptyMap
    /\ activeGame = 0
    /\ uuid = 0
    /\ ver = EmptyMap
    /\ acked = {}
    /\ revealedAt = {}
    /\ InitRest(0)
    /\ \E T \in MinTimeLimit..MaxTimeLimit, ok \in BOOLEAN :
          \E ms \in ElapsedSamples(T) :
             calc = [T |-> T, ms |-> ms, correct |-> ok, out |-> -1, alt |-> -1]

ApplySupabase ==
    /\ calc.alt = -1
    /\ calc' = [calc EXCEPT !.alt = SupabaseScore(calc.correct, calc.ms, calc.T)]
    /\ UNCHANGED <<games, activeGame, reqs, tick, left, uuid, ver, acked,
                   revealedAt, socketUsers, rooms, inbox, polled>>

NextVariants == ApplyScore \/ ApplySupabase

SpecVariants == InitVariants /\ [][NextVariants]_vars


\* ------------------------------------------------------------------------
\* Properties
\* ------------------------------------------------------------------------
Viewers == Users \cup {"ANONYMOUS"}

InFlight == {s \in Slots : reqs[s].op # "idle"}

\* The records a projection can be computed from: the stored ones and the
\* ones the requests in flight hold.
AllRecords ==
    {games[i] : i \in DOMAIN games} \cup {reqs[s].g : s \in {t \in Slots : reqs[t].g.id # 0}}

BaseFields ==
    {"id", "phase", "hostId", "currentQuestionIndex", "phaseStartTime",
     "timeLimitSeconds", "players", "scores", "userHasAnswered", "totalQuestions"}

\* The round (question and its activation time) of record g is that of the
\* acknowledged answer a.
SameRound(a, g) ==
    /\ a.gid = g.id
    /\ a.idx = g.currentQuestionIndex
    /\ a.t0 = g.phaseStartTime

\* C1: for a viewer other than the host, the projection of a record that is
\* not in REVEAL_ANSWER has no field beyond the base fields and a
\* currentQuestion made of text and answers only (no questions list, no
\* correct index); in REVEAL_ANSWER currentQuestion carries the correct index.
C1_Privacy ==
    \A g \in AllRecords : \A v \in Viewers \ {g.hostId} :
        LET p == sanitizeGameState(g, v) IN
        IF g.phase = "REVEAL_ANSWER"
        THEN /\ "currentQuestion" \in DOMAIN p
             /\ "correctAnswer" \in DOMAIN p.currentQuestion
             /\ p.currentQuestion.correctAnswer = CurrentQuestion(g).correctAnswer
        ELSE /\ DOMAIN p \subseteq BaseFields \cup {"currentQuestion"}
             /\ "currentQuestion" \in DOMAIN p
                   => DOMAIN p.currentQuestion = {"text", "answers"}

\* A stored record in REVEAL_ANSWER that holds an answer of p2, and one in
\* QUESTION_ACTIVE whose projection shows p2 the question.
C1_Witness ==
    \E i \in DOMAIN games :
        /\ games[i].phase = "REVEAL_ANSWER"
        /\ "p2" \in DOMAIN games[i].currentRoundAnswers
        /\ "roundResult" \in DOMAIN sanitizeGameState(games[i], "p2")
        /\ sanitizeGameState(games[i], "p2").currentQuestion.correctAnswer
              = CurrentQuestion(games[i]).correctAnswer

\* C2: the load-transition-persist sequences of two commands on one game
\* never interleave: when a command is about to write the record (or, for the
\* FINISHED transition, to clear the pointer before it), nothing has been
\* written to that record since the command loaded it.
C2_NoInterleaving ==
    \A s \in Slots :
        (reqs[s].pc \in {"persist", "delPtr"} /\ reqs[s].op # "terminate")
            => reqs[s].seen.ver = VerOf(reqs[s].g.id)

\* C3: once the answer commands of one QUESTION_ACTIVE phase have all
\* returned, every player whose answer was acknowledged has an entry in
\* currentRoundAnswers.
C3_OneEntryEach ==
    (InFlight = {})
        => \A a \in acked :
              SameRound(a, Stored(a.gid))
                  => a.userId \in DOMAIN Stored(a.gid).currentRoundAnswers

\* C4: submission is exactly-once per player and question: no answer is
\* accepted for a player who has an acknowledged answer for the same round,
\* and no two accepted answers of one player for one round are in flight.
C4_ExactlyOnce ==
    \A s \in Slots :
        (reqs[s].op = "answer" /\ reqs[s].pc = "persist")
            => /\ \A a \in acked : ~(SameRound(a, reqs[s].g) /\ a.userId = reqs[s].caller)
               /\ \A t \in Slots \ {s} :
                     ~(/\ reqs[t].op = "answer"
                       /\ reqs[t].caller = reqs[s].caller
                       /\ reqs[t].g.id = reqs[s].g.id
                       /\ reqs[t].g.currentQuestionIndex = reqs[s].g.currentQuestionIndex
                       /\ reqs[t].g.phaseStartTime = reqs[s].g.phaseStartTime)

\* C5: when the next commands fired at a game that shows question 0 (in
\* REVEAL_ANSWER or LEADERBOARD) have all returned, two of them or more, the
\* index has advanced exactly once (question 1 is active), or, with no
\* further question, the game is FINISHED at the same index and the pointer
\* is cleared.
C5_OneAdvance ==
    (left <= MaxCmds - 2 /\ InFlight = {})
        => IF Len(games[1].questions) > 1
           THEN /\ games[1].phase = "QUESTION_ACTIVE"
                /\ games[1].currentQuestionIndex = 1
           ELSE /\ games[1].phase = "FINISHED"
                /\ games[1].currentQuestionIndex = 0
                /\ activeGame = 0

\* Two next commands are in flight together, both having loaded the record
\* in REVEAL_ANSWER.
C5_Witness ==
    \E s \in Slots : \E t \in Slots \ {s} :
        /\ reqs[s].op = "next" /\ reqs[t].op = "next"
        /\ reqs[s].seen.phase = "REVEAL_ANSWER" /\ reqs[t].seen.phase = "REVEAL_ANSWER"
        /\ reqs[s].g.currentQuestionIndex = 1 /\ reqs[t].g.currentQuestionIndex = 1

\* C6: the record a reveal is about to persist holds a scored entry for every
\* answer of that round that was acknowledged before the reveal loaded the
\* record.
C6_RevealSeesAcked ==
    \A s \in Slots :
        (reqs[s].op = "reveal" /\ reqs[s].pc = "persist")
            => \A a \in acked :
                  (SameRound(a, reqs[s].g) /\ a.ver <= reqs[s].seen.ver)
                      => a.userId \in DOMAIN reqs[s].g.currentRoundAnswers

\* C7: no write puts back an older record: outside the writes of start and
\* reset (which open a new round), the stored question index never decreases
\* and REVEAL_ANSWER is never replaced by QUESTION_ACTIVE for the same index.
C7_NoStaleWrite ==
    [][\A i \in DOMAIN games :
          (games'[i].phase \notin {"LOBBY", "STARTING"})
              => /\ games'[i].currentQuestionIndex >= games[i].currentQuestionIndex
                 /\ ~(/\ games[i].phase = "REVEAL_ANSWER"
                      /\ games'[i].phase = "QUESTION_ACTIVE"
                      /\ games'[i].currentQuestionIndex = games[i].currentQuestionIndex)]_vars

\* The scoring function as the specification states it: 0 when wrong,
\* otherwise max(100, round(1000 * (1 - clamp(ms / (T * 1000), 0, 1) / 2))).
StatedScore(isCorrect, ms, T) ==
    IF ~isCorrect THEN 0
    ELSE LET c == IF ms < 0 THEN 0 ELSE IF ms > T * 1000 THEN T * 1000 ELSE ms
         IN  IF (2001 * T - c) \div (2 * T) < 100 THEN 100
             ELSE (2001 * T - c) \div (2 * T)

\* C8: a reveal that the host issues turns the record it loaded into one in
\* REVEAL_ANSWER where every entry has scoreEarned = score(correct, elapsed,
\* limit) and that player's score has grown by exactly that amount (1000 for
\* an instant correct answer, 0 for a wrong one), the other scores are as
\* loaded; and that is the record it persists.
C8_RevealScores ==
    [][\A s \in Slots :
          /\ (reqs[s].op = "idle" /\ reqs'[s].op = "reveal")
                => LET old == Stored(reqs'[s].gid)
                       new == reqs'[s].g
                   IN  /\ new.phase = "REVEAL_ANSWER"
                       /\ DOMAIN new.currentRoundAnswers = DOMAIN old.currentRoundAnswers
                       /\ DOMAIN new.scores = DOMAIN old.scores
                       /\ \A u \in DOMAIN old.scores \ DOMAIN old.currentRoundAnswers :
                             new.scores[u] = old.scores[u]
                       /\ \A u \in DOMAIN old.currentRoundAnswers :
                             LET e == old.currentRoundAnswers[u]
                                 ok == e.answerIndex = CurrentQuestion(old).correctAnswer
                                 pts == StatedScore(ok, e.timeTakenMs, old.timeLimitSeconds)
                             IN  /\ new.currentRoundAnswers[u].scoreEarned = pts
                                 /\ new.scores[u] = old.scores[u] + pts
                                 /\ (ok /\ e.timeTakenMs = 0) => pts = 1000
                                 /\ ~ok => pts = 0
          /\ (reqs[s].op = "reveal" /\ reqs[s].pc = "persist" /\ reqs'[s].op = "idle")
                => games'[reqs[s].g.id] = reqs[s].g]_vars

\* A reveal in flight that has scored an instant correct answer with 1000
\* points and a wrong or absent answer with none.
C8_Witness ==
    \E s \in Slots :
        /\ reqs[s].op = "reveal" /\ reqs[s].pc = "persist"
        /\ \E u \in DOMAIN reqs[s].g.currentRoundAnswers :
              /\ reqs[s].g.currentRoundAnswers[u].scoreEarned = 1000
              /\ reqs[s].g.scores[u] >= 1000
        /\ \E u \in DOMAIN reqs[s].g.scores : reqs[s].g.scores[u] = 0

\* C9 as stated: a correct answer whose elapsed time equals the full time
\* limit earns exactly 100 points.
C9_FullLimitEarns100 ==
    (calc.out # -1 /\ calc.correct /\ calc.ms = calc.T * 1000) => calc.out = 100

\* C9 as amended: a correct answer whose elapsed time equals the full time
\* limit earns exactly 500 points, for every time limit in [5,120].
C9_FullLimitEarns500 ==
    (calc.out # -1 /\ calc.correct /\ calc.ms = calc.T * 1000) => calc.out = 500

C9_Witness ==
    calc.correct /\ calc.T = MaxTimeLimit /\ calc.ms = calc.T * 1000 /\ calc.out = 500

\* C10: an instant correct answer earns 1000 for every time limit in [5,120],
\* a wrong answer earns 0 whatever the elapsed time, and no answer earns more
\* than 1000 for an elapsed time that /answer can record.
C10_ScoreRange ==
    calc.out # -1
        => /\ (calc.correct /\ calc.ms = 0) => calc.out = 1000
           /\ ~calc.correct => calc.out = 0
           /\ calc.out <= 1000
           /\ calc.out >= 0

C10_Witness ==
    /\ calc.correct /\ calc.ms = 0 /\ calc.T = MinTimeLimit /\ calc.out = 1000

\* C11: for a fixed time limit the points of a correct answer never go below
\* 100 and never grow with the elapsed time: the answer scored here earns at
\* least as much as a correct answer one millisecond later, or at any later
\* sampled time up to the end of the grace window.
C11_MonotoneFloor ==
    (calc.out # -1 /\ calc.correct)
        => /\ calc.out >= 100
           /\ \A ms \in ElapsedSamples(calc.T) \cup {calc.ms + 1} :
                 (ms >= calc.ms /\ ms <= calc.T * 1000 + GraceMs)
                     => /\ Score(TRUE, ms, calc.T) <= calc.out
                        /\ Score(TRUE, ms, calc.T) >= 100

\* A correct answer inside the grace window, after the limit, has been scored.
C11_Witness ==
    /\ calc.correct /\ calc.out >= 100
    /\ calc.ms = calc.T * 1000 + GraceMs
    /\ calc.out < Score(TRUE, 0, calc.T)

\* The members of a players list.
PlayerSet(g) == {g.players[i] : i \in 1..Len(g.players)}

\* C12: a reset that the host issues turns whatever record it loaded into one
\* with phase LOBBY, currentQuestionIndex -1, no questions, no answers, a
\* score of 0 for each player and the players as loaded; it persists that
\* record and then sets the active-game pointer to this game.
C12_Reset ==
    [][\A s \in Slots :
          /\ (reqs[s].op = "idle" /\ reqs'[s].op = "reset")
                => LET old == Stored(reqs'[s].gid)
                       new == reqs'[s].g
                   IN  /\ new.phase = "LOBBY"
                       /\ new.currentQuestionIndex = -1
                       /\ new.questions = <<>>
                       /\ DOMAIN new.currentRoundAnswers = {}
                       /\ new.players = old.players
                       /\ new.id = old.id
                       /\ DOMAIN new.scores = PlayerSet(old)
                       /\ \A u \in PlayerSet(old) : new.scores[u] = 0
          /\ (reqs[s].op = "reset" /\ reqs[s].pc = "persist" /\ reqs'[s] # reqs[s])
                => /\ games'[reqs[s].g.id] = reqs[s].g
                   /\ reqs'[s].pc = "setPtr"
          /\ (reqs[s].op = "reset" /\ reqs[s].pc = "setPtr" /\ reqs'[s] # reqs[s])
                => activeGame' = reqs[s].g.id]_vars

\* A reset of a game that was in REVEAL_ANSWER with points on the board has
\* persisted its record and is about to set the pointer.
C12_Witness ==
    \E s \in Slots :
        /\ reqs[s].op = "reset" /\ reqs[s].pc = "setPtr"
        /\ reqs[s].seen.phase = "REVEAL_ANSWER"
        /\ games[reqs[s].g.id] = reqs[s].g
        /\ \A u \in PlayerSet(reqs[s].g) : games[reqs[s].g.id].scores[u] = 0

\* Number of times userId occurs in the players list.
Occurrences(g, userId) ==
    Cardinality({i \in 1..Len(g.players) : g.players[i] = userId})

\* C13: a Connect that finds its caller already among the players of the
\* LOBBY game succeeds without writing anything: the stored record (players,
\* scores) stays as it is, the caller occurs exactly once in players, and the
\* request is over after the load.
C13_ConnectIdempotent ==
    [][\A s \in Slots :
          (/\ reqs[s].op = "connect" /\ reqs[s].pc = "load"
           /\ reqs'[s] # reqs[s]
           /\ Stored(reqs[s].gid).phase = "LOBBY"
           /\ Includes(Stored(reqs[s].gid).players, reqs[s].caller))
              => /\ ConnectCompute(Stored(reqs[s].gid), reqs[s].caller, uuid + 1, now).res = "ok"
                 /\ reqs'[s] = Idle
                 /\ games' = games
                 /\ ver' = ver
                 /\ Occurrences(games'[reqs[s].gid], reqs[s].caller) = 1]_vars

\* p1 has joined the host's fresh game with a first Connect and a second
\* Connect of p1 is about to load the record.
C13_Witness ==
    \E s \in Slots :
        /\ reqs[s].op = "connect" /\ reqs[s].pc = "load" /\ reqs[s].caller = "p1"
        /\ Stored(reqs[s].gid).phase = "LOBBY"
        /\ Stored(reqs[s].gid).players = <<"h1", "p1">>
        /\ \A t \in Slots \ {s} : reqs[t].op = "idle"

\* C14: Connect commands alone act on a game in LOBBY, so every member of the
\* stored players list is the host or an identity whose Connect wrote the
\* record and returned success; no write removes a member (or its score
\* entry), so two identities that connect concurrently are both members
\* afterwards.
C14_BothJoined ==
    [][\A i \in DOMAIN games :
          /\ PlayerSet(games[i]) \subseteq PlayerSet(games'[i])
          /\ PlayerSet(games'[i]) \subseteq DOMAIN games'[i].scores]_vars

\* C15: a next that the host issues on a record in REVEAL_ANSWER or
\* LEADERBOARD: with a further question, the index grows by exactly 1, the
\* answers are cleared, the phase is QUESTION_ACTIVE and the record is
\* persisted; with none, the phase is FINISHED, the index is as loaded, the
\* active-game pointer is cleared and then the record is persisted.
C15_NextTransition ==
    [][\A s \in Slots :
          /\ (/\ reqs[s].op = "idle" /\ reqs'[s].op = "next"
              /\ Stored(reqs'[s].gid).phase \in {"REVEAL_ANSWER", "LEADERBOARD"})
                => LET old == Stored(reqs'[s].gid)
                       new == reqs'[s].g
                   IN  IF old.currentQuestionIndex + 1 < Len(old.questions)
                       THEN /\ new.currentQuestionIndex = old.currentQuestionIndex + 1
                            /\ DOMAIN new.currentRoundAnswers = {}
                            /\ new.phase = "QUESTION_ACTIVE"
                            /\ new.scores = old.scores
                            /\ reqs'[s].pc = "persist"
                       ELSE /\ new.phase = "FINISHED"
                            /\ new.currentQuestionIndex = old.currentQuestionIndex
                            /\ reqs'[s].pc = "delPtr"
          /\ (reqs[s].op = "next" /\ reqs[s].pc = "delPtr" /\ reqs'[s] # reqs[s])
                => /\ activeGame' = 0
                   /\ reqs'[s].pc = "persist"
          /\ (reqs[s].op = "next" /\ reqs[s].pc = "persist" /\ reqs'[s] # reqs[s])
                => games'[reqs[s].g.id] = reqs[s].g]_vars

\* A next that loaded the last question's LEADERBOARD record has cleared the
\* pointer and is about to persist FINISHED.
C15_Witness ==
    \E s \in Slots :
        /\ reqs[s].op = "next" /\ reqs[s].pc = "persist"
        /\ reqs[s].seen.phase = "LEADERBOARD"
        /\ reqs[s].g.phase = "FINISHED"
        /\ reqs[s].g.currentQuestionIndex = reqs[s].seen.idx
        /\ activeGame = 0

\* C16: once next has persisted FINISHED the pointer is clear, and a Connect
\* of an identity that is not on the allow-list gets the no-active-game
\* error whether it finds no pointer or (having read the pointer earlier)
\* loads the FINISHED record: it writes nothing, creates no game and is over
\* without the finished record.
C16_NoStaleGame ==
    /\ [](\A i \in DOMAIN games :
            games[i].phase = "FINISHED"
                => /\ activeGame = 0
                   /\ \A u \in Users \ ALLOWED_HOSTS :
                         /\ CreateCompute(u, uuid + 1, now).res = "NoActiveGame"
                         /\ CreateCompute(u, uuid + 1, now).after = <<>>)
    /\ [][\A s \in Slots :
            (/\ reqs[s].op = "connect" /\ reqs[s].pc = "load"
             /\ reqs[s].caller \notin ALLOWED_HOSTS
             /\ Stored(reqs[s].gid).phase = "FINISHED"
             /\ reqs'[s] # reqs[s])
                => /\ ConnectCompute(Stored(reqs[s].gid), reqs[s].caller,
                                     uuid + 1, now).res = "NoActiveGame"
                   /\ reqs'[s] = Idle
                   /\ games' = games
                   /\ uuid' = uuid
                   /\ activeGame' = activeGame]_vars

\* A Connect of p2 read the pointer before next cleared it and is about to
\* load the record, which is FINISHED by now.
C16_Witness ==
    \E s \in Slots :
        /\ reqs[s].op = "connect" /\ reqs[s].pc = "load" /\ reqs[s].caller = "p2"
        /\ Stored(reqs[s].gid).phase = "FINISHED"
        /\ activeGame = 0

\* C17: in every stored record whose phase is neither LOBBY nor FINISHED,
\* currentQuestionIndex is a valid index into questions.
C17_ValidIndex ==
    \A i \in DOMAIN games :
        games[i].phase \notin {"LOBBY", "FINISHED"}
            => /\ 0 <= games[i].currentQuestionIndex
               /\ games[i].currentQuestionIndex < Len(games[i].questions)

\* C18: in every stored record whose phase is LOBBY, currentQuestionIndex
\* is -1.
C18_LobbyIndex ==
    \A i \in DOMAIN games :
        games[i].phase = "LOBBY" => games[i].currentQuestionIndex = -1

\* A reset has put a game that had a question active back to LOBBY.
C18_Witness ==
    \E i \in DOMAIN games :
        /\ games[i].phase = "LOBBY"
        /\ games[i].currentQuestionIndex = -1
        /\ games[i].phaseStartTime = now
        /\ VerOf(i) >= 6

\* C19: in every stored record, every key of currentRoundAnswers is a member
\* of players.
C19_AnswersOfPlayers ==
    \A i \in DOMAIN games :
        DOMAIN games[i].currentRoundAnswers \subseteq PlayerSet(games[i])

\* Two players have an answer in a stored record.
C19_Witness ==
    \E i \in DOMAIN games :
        /\ games[i].phase = "QUESTION_ACTIVE"
        /\ DOMAIN games[i].currentRoundAnswers = {"p1", "p2"}

\* C20: in every stored record, every member of players has an entry in
\* scores.
C20_ScoresCoverPlayers ==
    \A i \in DOMAIN games : PlayerSet(games[i]) \subseteq DOMAIN games[i].scores

\* p1 has joined a game that h1 created.
C20_Witness ==
    \E i \in DOMAIN games :
        /\ games[i].players = <<"h1", "p1">>
        /\ DOMAIN games[i].scores = {"h1", "p1"}
        /\ VerOf(i) = 2

\* C21: in every stored record hostId is a member of players, and no write
\* changes the hostId of a stored record.
C21_HostMember ==
    /\ [](\A i \in DOMAIN games : Includes(games[i].players, games[i].hostId))
    /\ [][\A i \in DOMAIN games : games'[i].hostId = games[i].hostId]_vars

\* h1 has created a game in this behaviour and p2 has joined it.
C21_Witness ==
    \E i \in DOMAIN games :
        /\ games[i].hostId = "h1"
        /\ games[i].players = <<"h1", "p2">>
        /\ VerOf(i) = 2

\* C22: timeLimitSeconds is within [5,120] in every stored record; it is 30
\* in a record that only creation has written; and a start stores the limit
\* it loaded when the body carries none, otherwise the supplied number
\* brought into [5,120] (1 becomes 5, 999 becomes 120).
C22_TimeLimitRange ==
    /\ [](\A i \in DOMAIN games :
            /\ games[i].timeLimitSeconds >= 5
            /\ games[i].timeLimitSeconds <= 120
            /\ VerOf(i) = 1 => games[i].timeLimitSeconds = 30)
    /\ [][\A s \in Slots :
            (reqs[s].op = "idle" /\ reqs'[s].op = "start")
                => LET tl == reqs'[s].arg.tl
                       old == Stored(reqs'[s].gid).timeLimitSeconds
                   IN  reqs'[s].g.timeLimitSeconds =
                          IF tl = <<>> THEN old
                          ELSE IF tl[1] < 5 THEN 5
                          ELSE IF tl[1] > 120 THEN 120
                          ELSE tl[1]]_vars

\* A start with timeLimitSeconds 999 has been persisted with 120.
C22_Witness ==
    \E i \in DOMAIN games : \E s \in Slots :
        /\ games[i].phase = "STARTING"
        /\ games[i].timeLimitSeconds = 120
        /\ reqs[s].op = "start" /\ reqs[s].arg.tl = <<1>>
        /\ reqs[s].g.timeLimitSeconds = 5

\* C23: a start is admitted only on a record in LOBBY; in any other phase it
\* is rejected and writes nothing.
C23_StartOnlyInLobby ==
    [][\A s \in Slots :
          (reqs[s].op = "idle" /\ reqs'[s].op = "start")
              => Stored(reqs'[s].gid).phase = "LOBBY"]_vars

\* The checks the specification states for a question list.
StatedValidQuiz(qs) ==
    /\ Len(qs) > 0
    /\ \A k \in 1..Len(qs) :
          /\ Len(qs[k].answers) >= 2
          /\ qs[k].correctAnswer \in 0..(Len(qs[k].answers) - 1)

\* C29: a start is admitted only with a non-empty question list whose every
\* question has at least 2 options and a correct index among them; with any
\* other list the host's start is rejected and the record stays as loaded;
\* so every question of every stored record has its correct index among its
\* options.
C29_StartValidation ==
    /\ [](\A i \in DOMAIN games :
            /\ \A k \in 1..Len(games[i].questions) :
                  games[i].questions[k].correctAnswer
                      \in 0..(Len(games[i].questions[k].answers) - 1)
            /\ \A qs \in StartInputs : \A tl \in TimeLimitInputs :
                  ~StatedValidQuiz(qs)
                      => LET c == StartCompute(games[i], games[i].hostId, qs, tl, now)
                         IN  /\ c.res \in {"NoQuestions", "InvalidQuestion"}
                             /\ c.after = <<>>
                             /\ c.g = games[i])
    /\ [][\A s \in Slots :
            (reqs[s].op = "idle" /\ reqs'[s].op = "start")
                => StatedValidQuiz(reqs'[s].arg.questions)]_vars

\* A start with the two-question list has been persisted.
C29_Witness ==
    \E i \in DOMAIN games :
        /\ games[i].phase = "STARTING"
        /\ games[i].questions = <<QSky, QSum>>
        /\ VerOf(i) = 2

\* C24: a next is admitted only on a record in STARTING, REVEAL_ANSWER or
\* LEADERBOARD; in LOBBY, QUESTION_ACTIVE and FINISHED it fails, writes
\* nothing and notifies nobody.
C24_NextOnlyWhenLegal ==
    [][\A s \in Slots :
          (reqs[s].op = "idle" /\ reqs'[s].op = "next")
              => Stored(reqs'[s].gid).phase
                    \in {"STARTING", "REVEAL_ANSWER", "LEADERBOARD"}]_vars

\* The acceptance condition the specification states for an answer.
StatedAccept(g, u, a, t) ==
    /\ g.id # 0
    /\ g.phase = "QUESTION_ACTIVE"
    /\ u \in PlayerSet(g)
    /\ u \notin DOMAIN g.currentRoundAnswers
    /\ t - g.phaseStartTime <= g.timeLimitSeconds * 1000 + 2000
    /\ a \in 0..(Len(g.questions[g.currentQuestionIndex + 1].answers) - 1)

\* C25: an answer is accepted exactly when the phase is QUESTION_ACTIVE, the
\* caller is a player without an entry, the elapsed time is at most
\* timeLimitSeconds*1000 + 2000 and the option index is one of the current
\* question's; accepted, it records the index, the elapsed time and
\* scoreEarned 0, keeps the other entries, the phase and the scores, and is
\* persisted; rejected, it leaves the record as loaded and writes nothing.
C25_AnswerAcceptance ==
    /\ [](\A i \in DOMAIN games : \A u \in Users : \A a \in WindowAnswerInputs :
            LET g == games[i]
                c == AnswerCompute(g, u, a, now)
            IN  /\ (c.res = "received") = StatedAccept(g, u, a, now)
                /\ IF c.res = "received"
                   THEN /\ c.after = <<"persist">>
                        /\ DOMAIN c.g.currentRoundAnswers
                              = DOMAIN g.currentRoundAnswers \cup {u}
                        /\ c.g.currentRoundAnswers[u].answerIndex = a
                        /\ c.g.currentRoundAnswers[u].timeTakenMs
                              = now - g.phaseStartTime
                        /\ c.g.currentRoundAnswers[u].scoreEarned = 0
                        /\ \A v \in DOMAIN g.currentRoundAnswers :
                              c.g.currentRoundAnswers[v] = g.currentRoundAnswers[v]
                        /\ c.g.phase = g.phase
                        /\ c.g.scores = g.scores
                   ELSE c.after = <<>> /\ c.g = g)
    /\ [][\A s \in Slots :
            (reqs[s].op = "idle" /\ reqs'[s].op = "answer")
                => /\ StatedAccept(Stored(reqs'[s].gid), reqs'[s].caller,
                                   reqs'[s].arg.answerIndex, now)
                   /\ reqs'[s].g = AnswerCompute(Stored(reqs'[s].gid), reqs'[s].caller,
                                                 reqs'[s].arg.answerIndex, now).g]_vars

\* An answer sent at the very end of the grace window has been accepted and
\* a second answer in the same millisecond is in flight.
C25_Witness ==
    \E s \in Slots : \E i \in DOMAIN games :
        /\ reqs[s].op = "answer" /\ reqs[s].pc = "persist"
        /\ reqs[s].g.currentRoundAnswers[reqs[s].caller].timeTakenMs
              = reqs[s].g.timeLimitSeconds * 1000 + GraceMs
        /\ DOMAIN games[i].currentRoundAnswers # {}
        /\ games[i].phase = "QUESTION_ACTIVE"

\* C26: start, next, reveal, leaderboard and reset by anybody but the game's
\* hostId (a joined player, another allow-listed host) are rejected as
\* Forbidden; the record stays as loaded and nothing is written.
C26_HostOnly ==
    \A i \in DOMAIN games : \A u \in Users \ {games[i].hostId} :
        LET g == games[i]
            Rejected(c) == c.res = "Forbidden" /\ c.after = <<>> /\ c.g = g
        IN  /\ \A qs \in Quizzes : Rejected(StartCompute(g, u, qs, <<>>, now))
            /\ Rejected(NextCompute(g, u, now))
            /\ Rejected(RevealCompute(g, u))
            /\ Rejected(LeaderboardCompute(g, u))
            /\ Rejected(ResetCompute(g, u, now))

\* A game is showing the leaderboard after a command of this behaviour; p1
\* is a joined player and h2 an allow-listed host who is not the game's host.
C26_Witness ==
    \E i \in DOMAIN games :
        /\ games[i].phase = "LEADERBOARD"
        /\ games[i].hostId = "h1"
        /\ "p1" \in PlayerSet(games[i])
        /\ "h2" \in ALLOWED_HOSTS \ PlayerSet(games[i])
        /\ VerOf(i) >= 6

Successes == {"ok", "received"}

\* C27: a command that ends in an error has altered nothing: every request
\* that still has a store operation to run, or has run one, is a request
\* that succeeds (an error is returned before the first store operation, so
\* such a command never holds a slot), and every step that changes a record,
\* the pointer or an inbox belongs to a request that succeeds.
C27_ErrorsAlterNothing ==
    /\ [](\A s \in Slots :
            (reqs[s].op # "idle" /\ reqs[s].pc # "load")
                => reqs[s].res \in Successes)
    /\ [][(games' # games \/ activeGame' # activeGame \/ uuid' # uuid
              \/ inbox' # inbox)
             => \E s \in Slots :
                   /\ reqs'[s] # reqs[s]
                   /\ reqs[s].res \in Successes \/ reqs'[s].res \in Successes]_vars

\* A game in LOBBY joined by p1 and p2 exists after a reset of this
\* behaviour: reveal (no current question), answer (not accepting) and a
\* start with an empty list all fail on it.
C27_Witness ==
    \E i \in DOMAIN games :
        /\ games[i].phase = "LOBBY"
        /\ VerOf(i) >= 6
        /\ RevealCompute(games[i], games[i].hostId).res = "NoCurrentQuestion"
        /\ AnswerCompute(games[i], "p1", 0, now).res = "NotAccepting"
        /\ StartCompute(games[i], games[i].hostId, <<>>, <<>>, now).res = "NoQuestions"

\* C28: while the stored record is in a phase other than LOBBY and FINISHED
\* no write makes players grow.
C28_NoJoinInProgress ==
    [][\A i \in DOMAIN games :
          games[i].phase \notin {"LOBBY", "FINISHED"}
              => PlayerSet(games'[i]) \subseteq PlayerSet(games[i])]_vars

\* C30: the active-game pointer is never clear while the stored record of
\* the game that next is finishing still shows the phase before FINISHED.
C30_PersistBeforeClear ==
    activeGame = 0 => \A i \in DOMAIN games : games[i].phase = "FINISHED"

\* C31: a GET /game/:gameId changes neither a record nor the pointer nor a
\* request in flight, and answers a player or the host of the game with the
\* caller's projection of the record that is stored at that moment (so a
\* poll after a write shows the written record, whatever was pushed).
C31_PollReads ==
    [][polled' # polled =>
          LET g == Stored(polled'.gid)
              u == polled'.caller
          IN  /\ games' = games /\ activeGame' = activeGame
              /\ reqs' = reqs /\ ver' = ver
              /\ (g.id # 0 /\ (u \in PlayerSet(g) \/ u = g.hostId))
                    => /\ polled'.res = "ok"
                       /\ polled'.view = sanitizeGameState(g, u)
                       /\ polled'.view.phase = g.phase
                       /\ polled'.view.currentQuestionIndex = g.currentQuestionIndex
                       /\ u # g.hostId => "questions" \notin DOMAIN polled'.view]_vars

\* p2 has polled after the reveal was written and has been shown its own
\* result of the round.
C31_Witness ==
    /\ polled.caller = "p2"
    /\ polled.res = "ok"
    /\ VerOf(polled.gid) >= 7
    /\ polled.view.phase = "REVEAL_ANSWER"
    /\ "roundResult" \in DOMAIN polled.view

\* C32: whenever a socket is sent a state_update, what it is sent is the
\* projection, for the identity the socket authenticated with at join_game,
\* of the record the handler holds: the viewer's own userHasAnswered and
\* roundResult; the unfiltered record goes only to a socket authenticated as
\* the game's hostId; and the projection for a socket without identity
\* ('ANONYMOUS') is never the unfiltered record.
C32_PerViewerPush ==
    /\ [](\A g \in AllRecords :
            "questions" \notin DOMAIN sanitizeGameState(g, "ANONYMOUS"))
    /\ [][\A k \in Sockets :
            (inbox'[k] # inbox[k] /\ inbox'[k] # NoMsg)
                => /\ k \in DOMAIN socketUsers'
                   /\ inbox'[k].gid \in rooms'[k]
                   /\ LET id == socketUsers'[k].userId
                          p == inbox'[k].view
                      IN  \E g \in AllRecords :
                            /\ g.id = inbox'[k].gid
                            /\ p = sanitizeGameState(g, id)
                            /\ "questions" \in DOMAIN p <=> id = g.hostId
                            /\ id # g.hostId =>
                                 /\ p.userHasAnswered
                                       = (id \in DOMAIN g.currentRoundAnswers)
                                 /\ "roundResult" \in DOMAIN p =>
                                       /\ id \in DOMAIN g.currentRoundAnswers
                                       /\ p.roundResult.answerIndex
                                             = g.currentRoundAnswers[id].answerIndex
                                       /\ p.roundResult.scoreEarned
                                             = g.currentRoundAnswers[id].scoreEarned]_vars

\* The reveal has been broadcast: the socket of p1, who answered, holds p1's
\* result, and the socket of the host holds the unfiltered record.
C32_Witness ==
    /\ "s1" \in DOMAIN socketUsers /\ socketUsers["s1"].userId = "p1"
    /\ "s2" \in DOMAIN socketUsers /\ socketUsers["s2"].userId = "h1"
    /\ inbox["s1"].gid = 1 /\ inbox["s2"].gid = 1
    /\ inbox["s1"].view.phase = "REVEAL_ANSWER"
    /\ "roundResult" \in DOMAIN inbox["s1"].view
    /\ "questions" \in DOMAIN inbox["s2"].view
    /\ inbox["s2"].view.phase = "REVEAL_ANSWER"

\* C33: /debug/reset-server goes ahead only for an identity of the
\* allow-list (for anybody else nothing changes); when it goes ahead its
\* one store operation clears the active-game pointer and leaves every
\* stored record, phase included, as it was.
C33_Terminate ==
    /\ [][\A s \in Slots :
            (reqs[s].op = "idle" /\ reqs'[s].op = "terminate")
                => /\ reqs'[s].caller \in ALLOWED_HOSTS
                   /\ games' = games /\ activeGame' = activeGame]_vars
    /\ [][\A s \in Slots :
            (reqs[s].op = "terminate" /\ reqs'[s] # reqs[s])
                => /\ activeGame' = 0
                   /\ games' = games /\ ver' = ver
                   /\ reqs'[s] = Idle]_vars

\* The game with a question active has been terminated: the pointer is
\* clear, no request is in flight, the record is still in QUESTION_ACTIVE.
C33_Witness ==
    /\ activeGame = 0
    /\ \A s \in Slots : reqs[s] = Idle
    /\ 1 \in DOMAIN games
    /\ games[1] = ActiveGame(<<QSky>>)
    /\ left < MaxCmds

\* C34: an answer is counted into the cumulative score once: while the
\* first question (index 0) of a run that started with all scores 0 is the
\* current one, each player's score is the scoreEarned of that player's
\* entry, and 0 for a player without entry, however many reveals were sent.
C34_CountedOnce ==
    \A i \in DOMAIN games :
        games[i].currentQuestionIndex = 0
            => \A p \in DOMAIN games[i].scores :
                  games[i].scores[p]
                      = IF p \in DOMAIN games[i].currentRoundAnswers
                        THEN games[i].currentRoundAnswers[p].scoreEarned
                        ELSE 0

\* C35: no answer is admitted for a round (game, question, activation time)
\* of which a record in REVEAL_ANSWER has been written before.
C35_NoAnswerAfterReveal ==
    [][\A s \in Slots :
          (reqs[s].op = "idle" /\ reqs'[s].op = "answer")
              => \A e \in revealedAt :
                    ~(/\ e.gid = reqs'[s].g.id
                      /\ e.idx = reqs'[s].g.currentQuestionIndex
                      /\ e.t0 = reqs'[s].g.phaseStartTime)]_vars

\* C36: a store operation of a next or a reset on one game leaves the
\* pointer as it is while the pointer designates another game.
C36_PointerOfOtherGame ==
    [][\A s \in Slots :
          (/\ reqs[s].op \in {"next", "reset"}
           /\ reqs'[s] # reqs[s]
           /\ activeGame \notin {0, reqs[s].gid})
              => activeGame' = activeGame]_vars

\* C37: in every stored record in REVEAL_ANSWER each entry has scoreEarned
\* of at least 100 when its answerIndex is the current question's correct
\* index and 0 otherwise, and the isCorrect a player is shown equals
\* scoreEarned > 0.
C37_RevealedEntries ==
    \A i \in DOMAIN games :
        games[i].phase = "REVEAL_ANSWER"
            => \A u \in DOMAIN games[i].currentRoundAnswers :
                  LET e == games[i].currentRoundAnswers[u]
                      q == games[i].questions[games[i].currentQuestionIndex + 1]
                  IN  /\ e.answerIndex = q.correctAnswer => e.scoreEarned >= 100
                      /\ e.answerIndex # q.correctAnswer => e.scoreEarned = 0
                      /\ u # games[i].hostId =>
                            sanitizeGameState(games[i], u).roundResult.isCorrect
                                = (e.scoreEarned > 0)

\* A stored record in REVEAL_ANSWER with a correct and a wrong answer, one of
\* them p1's.
C37_Witness ==
    \E i \in DOMAIN games :
        /\ games[i].phase = "REVEAL_ANSWER"
        /\ "p1" \in DOMAIN games[i].currentRoundAnswers
        /\ \E u, v \in DOMAIN games[i].currentRoundAnswers :
              /\ games[i].currentRoundAnswers[u].scoreEarned > 0
              /\ games[i].currentRoundAnswers[v].scoreEarned = 0
              /\ games[i].currentRoundAnswers[v].answerIndex
                    # games[i].currentRoundAnswers[u].answerIndex

\* The records that differ from g only in the correct-option index of the
\* current or a later question.
CorrectIndexVariants(g) ==
    {[g EXCEPT !.questions[k].correctAnswer = c] :
        k \in {j \in 1..Len(g.questions) : j >= g.currentQuestionIndex + 1},
        c \in 0..2}

\* The records that differ from g only in the entries of currentRoundAnswers
\* of players other than v: any of those players may have an entry or none,
\* with either option.
OtherAnswersVariants(g, v) ==
    LET mine == DOMAIN g.currentRoundAnswers \cap {v}
    IN  UNION {{[g EXCEPT !.currentRoundAnswers =
                    [u \in mine \cup X |->
                        IF u = v THEN g.currentRoundAnswers[v]
                        ELSE [answerIndex |-> f[u], timeTakenMs |-> 0,
                              scoreEarned |-> 0, timestamp |-> g.phaseStartTime]]] :
                  f \in [X -> AnswerInputs]} :
               X \in SUBSET (PlayerSet(g) \ {v})}

\* C38: while a record is in STARTING or QUESTION_ACTIVE, the projection for
\* a viewer other than the host is the same for every record that differs
\* from it only in the correct index of the current or a later question, or
\* only in other players' entries of currentRoundAnswers.
C38_NonInterference ==
    \A g \in AllRecords :
        g.phase \in {"STARTING", "QUESTION_ACTIVE"}
            => \A v \in Viewers \ {g.hostId} :
                  \A h \in CorrectIndexVariants(g) \cup OtherAnswersVariants(g, v) :
                      sanitizeGameState(h, v) = sanitizeGameState(g, v)

\* A stored record of the two-question quiz in QUESTION_ACTIVE in which p1
\* has an entry and p2 has none: for p2 it has variants of both kinds.
C38_Witness ==
    \E i \in DOMAIN games :
        /\ games[i].phase = "QUESTION_ACTIVE"
        /\ Len(games[i].questions) = 2
        /\ "p1" \in DOMAIN games[i].currentRoundAnswers
        /\ "p2" \notin DOMAIN games[i].currentRoundAnswers
        /\ "p2" \in PlayerSet(games[i])
        /\ \E h \in CorrectIndexVariants(games[i]) : h # games[i]
        /\ \E h \in OtherAnswersVariants(games[i], "p2") :
              DOMAIN h.currentRoundAnswers # DOMAIN games[i].currentRoundAnswers

\* C39: for every time limit in 5..120 and every elapsed time that /answer
\* accepts (0 .. timeLimitSeconds*1000 + 2000), the Express server and the
\* Supabase function give an answer the same scoreEarned, and a correct
\* answer the same cumulative score, whether the player had no score, a
\* score of 0 or a positive one.
C39_SameScore ==
    (calc.out # -1 /\ calc.alt # -1)
        => /\ calc.out = calc.alt
           /\ calc.correct =>
                 \A prior \in PriorScores :
                     ExpressTotal(prior, calc.out) = SupabaseTotal(prior, calc.alt)

\* A correct answer given in the grace window, after the time limit, scored
\* by both variants.
C39_Witness ==
    /\ calc.correct
    /\ calc.ms > calc.T * 1000
    /\ calc.ms <= calc.T * 1000 + GraceMs
    /\ calc.out = 500
    /\ calc.alt = 500

\* C40: when the record of a started game is written in FINISHED, the
\* pointer is clear and there have been exactly as many reveals as the game
\* has questions, one for each index 0..N-1.
C40_FinishAfterNReveals ==
    [][\A i \in DOMAIN games :
          (games[i].phase # "FINISHED" /\ games'[i].phase = "FINISHED")
              => LET R == {e \in revealedAt : e.gid = i}
                     N == Len(games'[i].questions)
                 IN  /\ Cardinality(R) = N
                     /\ {e.idx : e \in R} = 0..(N - 1)
                     /\ activeGame' = 0]_vars

====
